---- MODULE Spec2Model ----
(***************************************************************************)
(* Multi-pass structured extraction and result reconciliation of the       *)
(* trademark case ingestion functions: the thread-pool fan-out and the     *)
(* deep-merge reconciler of functions/case_in.py, and the majority-vote    *)
(* reconciler of functions/case_in/extract_predictive_data.py, with the    *)
(* Case schema of functions/models.py.                                     *)
(***************************************************************************)
EXTENDS Integers, Sequences, FiniteSets, TLC

(***************************************************************************)
(* Python / JSON values.  Every value is a record tagged by its type; the  *)
(* payload field has a different name per type.  A str is either a plain   *)
(* text (field s) or the JSON text of a mapping or list (field json): the  *)
(* string json.dumps(v, sort_keys=True) produces and json.loads reads back.*)
(* A mapping is a function from its keys; mappings compare without regard  *)
(* to key order, as Python dicts do.                                       *)
(***************************************************************************)
PyNone == [t |-> "none"]

PyStr(a) == [t |-> "str", s |-> a]

JsonText(v) == [t |-> "str", json |-> v]

PyBool(b) == [t |-> "bool", b |-> b]

PyInt(n) == [t |-> "int", n |-> n]

PyList(items) == [t |-> "list", items |-> items]

PyTuple(items) == [t |-> "tuple", items |-> items]

PyDict(kv) == [t |-> "dict", kv |-> kv]

EmptyKv == [k \in {} |-> PyNone]

IsDict(v) == v.t = "dict"

IsList(v) == v.t = "list"

IsPlainStr(v) == v.t = "str" /\ "s" \in DOMAIN v

IsJsonText(v) == v.t = "str" /\ "json" \in DOMAIN v

\* bool(value): None, "", False, 0, [] and {} are falsy.
Truthy(v) ==
    CASE v.t = "none" -> FALSE
      [] v.t = "str" -> IF IsPlainStr(v) THEN v.s # "" ELSE TRUE
      [] v.t = "bool" -> v.b
      [] v.t = "int" -> v.n # 0
      [] v.t = "list" -> Len(v.items) > 0
      [] v.t = "tuple" -> Len(v.items) > 0
      [] v.t = "dict" -> DOMAIN v.kv # {}

\* dict.get(key): None when the key is absent.
DictGet(kv, k) == IF k \in DOMAIN kv THEN kv[k] ELSE PyNone

\* item in list, by ==.
InList(item, items) == \E i \in 1..Len(items) : items[i] = item

(***************************************************************************)
(* deep_merge(source, destination), on the key/value functions of the two  *)
(* mappings.  The keys of source are handled one by one and independently. *)
(***************************************************************************)
\* lines 265-271: each item of value is appended unless the list (as grown
\* so far) already holds an equal item.
AppendAlways(dest, item) == Append(dest, item)

AppendIfNew(dest, item) ==
    IF InList(item, dest) THEN dest ELSE Append(dest, item)

RECURSIVE ExtendUnique(_, _)
ExtendUnique(dest, value) ==
    IF value = <<>> THEN dest
    ELSE ExtendUnique(AppendIfNew(dest, Head(value)), Tail(value))

OverwriteAlways(value, destination, key) == TRUE

OverwriteWhenEmpty(value, destination, key) == ~Truthy(DictGet(destination, key))

\* line 275: the guard of the overwrite branch.
OverwriteGuard(value, destination, key) ==
    Truthy(value) \/ ~Truthy(DictGet(destination, key))

RECURSIVE deep_merge(_, _)
deep_merge(source, destination) ==
    LET both == DOMAIN source \cup DOMAIN destination
        Nested(k) == IsDict(source[k]) /\ k \in DOMAIN destination
                        /\ IsDict(destination[k])
        Listed(k) == IsList(source[k]) /\ k \in DOMAIN destination
                        /\ IsList(destination[k])
        Written(k) == k \in DOMAIN source
                        /\ (Nested(k) \/ Listed(k)
                            \/ (source[k].t # "none"
                                /\ OverwriteGuard(source[k], destination, k)))
        keys == {k \in both : k \in DOMAIN destination \/ Written(k)}
    IN  [k \in keys |->
            IF ~Written(k) THEN destination[k]
            ELSE IF Nested(k)
                 THEN PyDict(deep_merge(source[k].kv, destination[k].kv))
            ELSE IF Listed(k)
                 THEN PyList(ExtendUnique(destination[k].items, source[k].items))
            ELSE source[k]]


(***************************************************************************)
(* State.                                                                  *)
(*   chunks        the work items of structure_data["chunks"], each with   *)
(*                 its metadata and what the oracle does when called for it*)
(*   case_details  structure_data["case_details"], when present            *)
(*   task          per chunk, the state of its future in the thread pool   *)
(*   completed     futures that completed and as_completed has not yet     *)
(*                 yielded, in completion order                            *)
(*   results       the list `results` of extract_data_from_chunks / the    *)
(*                 argument of combine_extraction_results (deep merge)     *)
(*   pc            position of the calling thread                          *)
(*   combined_data the accumulator of combine_extraction_results           *)
(*   idx           position of its for loop in results                     *)
(*   ret           what the call returned or raised                        *)
(*   extraction_attempts, vpc, final_data, vret                            *)
(*                 argument, position, field table and outcome of the      *)
(*                 majority-vote combine_extraction_results                *)
(*   pdf           the pages of the PDF: what extract_text gives for each  *)
(*   page_num, full_text, current_position, section_markers,               *)
(*   section_chunks, marker_i, cpc, cret                                   *)
(*                 locals, position and outcome of                         *)
(*                 create_heading_aware_chunks                             *)
(*   fn            the function that is talking to the oracle              *)
(*   spc           its position                                            *)
(*   attempt_number  the attempt of the tenacity retry wrapper             *)
(*   uploaded_file its local uploaded_file: 0 for None, else the handle    *)
(*   handles, live the handles files.upload has returned, and those of     *)
(*                 them that are still stored at the oracle                *)
(*   upload_calls, oracle_calls  number of files.upload calls and of       *)
(*                 generate_content / batches.create calls made            *)
(*   delete_calls  the handles files.delete has been called for            *)
(*   pending       the return value or exception in flight while the       *)
(*                 finally block runs                                      *)
(*   doc_structure the sections get_document_structure returned            *)
(*   attempt_errors  the exception each finished attempt ended with        *)
(*   sret          what the function returned or raised                    *)
(*   stage, temp_pdf, text_chunks, primary, pret                           *)
(*                 position, temporary file, chunks, outcome of the stages *)
(*                 and outcome of process_case_from_storage                *)
(*   chunk_size, overlap  the window arguments of create_simple_chunks      *)
(*   docs          the documents of the record store, by <<collection, id>> *)
(*   chunk_docs    the documents of the 'chunks' sub-collections, by       *)
(*                 <<id of the case document, id of the chunk document>>   *)
(*   uuid_count    the number of uuid4 values drawn for chunk ids          *)
(*   store_calls   the number of storage calls made                        *)
(*   last_call     the last storage call: its arguments and outcome        *)
(*   gemini_client the module global _gemini_client: 0 for None, else the  *)
(*                 number of the genai.Client instance                     *)
(*   constructed   the number of genai.Client() constructions              *)
(*   tpc, made, got  per calling thread: its position in get_gemini_client,*)
(*                 the instance it constructed, the instance it was given  *)
(*   batch_job     the batch job as last seen: its state and responses     *)
(*   bpc, polls    position in get_parallel_extraction_attempts, number of *)
(*                 batches.get calls                                       *)
(*   extraction_results, bret  its list of results, and what it returned   *)
(*   indexes, endpoints  the vector search indexes and endpoints that      *)
(*                 exist, each with its display name and deployments       *)
(*   deploy_calls  the deploy_index calls issued                           *)
(*   rpc, listed, vector_index, index_endpoint                             *)
(*                 per pipeline run: its position in step 5, the listing   *)
(*                 it got, and the index and endpoint it holds             *)
(***************************************************************************)
VARIABLES chunks, case_details, task, completed, results, pc,
          combined_data, idx, ret,
          extraction_attempts, vpc, final_data, vret,
          pdf, page_num, full_text, current_position, section_markers,
          section_chunks, marker_i, cpc, cret,
          fn, spc, attempt_number, uploaded_file, handles, live, upload_calls,
          delete_calls, oracle_calls, pending, doc_structure, attempt_errors,
          sret,
          stage, temp_pdf, text_chunks, primary, pret,
          chunk_size, overlap,
          docs, chunk_docs, uuid_count, store_calls, last_call,
          gemini_client, constructed, tpc, made, got,
          batch_job, bpc, polls, extraction_results, bret,
          indexes, endpoints, deploy_calls, rpc, listed, vector_index,
          index_endpoint

fanVars == <<chunks, case_details, task, completed, results, pc,
             combined_data, idx, ret>>

voteVars == <<extraction_attempts, vpc, final_data, vret>>

chunkerVars == <<pdf, page_num, full_text, current_position, section_markers,
                 section_chunks, marker_i, cpc, cret>>

sessVars == <<fn, spc, attempt_number, uploaded_file, handles, live, upload_calls,
              delete_calls, oracle_calls, pending, doc_structure, attempt_errors,
              sret>>

pipeVars == <<stage, temp_pdf, text_chunks, primary, pret>>

simpleVars == <<chunk_size, overlap>>

storeVars == <<docs, chunk_docs, uuid_count, store_calls, last_call>>

clientVars == <<gemini_client, constructed, tpc, made, got>>

batchVars == <<batch_job, bpc, polls, extraction_results, bret>>

vectorVars == <<indexes, endpoints, deploy_calls, rpc, listed, vector_index,
                index_endpoint>>

auxVars == <<simpleVars, storeVars, clientVars, batchVars, vectorVars>>

ingestVars == <<chunkerVars, sessVars, pipeVars, auxVars>>

vars == <<fanVars, voteVars, chunkerVars, sessVars, pipeVars, auxVars>>

\* Bounds of the model.
MaxChunks == 3

MaxResults == 3

MaxAttempts == 3

\* os.cpu_count() of the machine the function runs on.
CpuCount == 2

NoReturn == [kind |-> "none"]

Return(v) == [kind |-> "return", value |-> v]

Raise(e) == [kind |-> "raise", exc |-> e]

Min(S) == CHOOSE x \in S : \A y \in S : x <= y

RECURSIVE SeqsUpTo(_, _)
SeqsUpTo(S, n) ==
    IF n = 0 THEN {<<>>}
    ELSE LET shorter == SeqsUpTo(S, n - 1)
         IN  shorter \cup {Append(q, x) : q \in {r \in shorter : Len(r) = n - 1}, x \in S}

(***************************************************************************)
(* The oracle's answers.  generate_content either raises APIError, or      *)
(* returns a response whose text is missing (None), is not JSON, or parses *)
(* to a JSON value.                                                        *)
(***************************************************************************)
OracleJson(v) == [kind |-> "json", value |-> v]

OracleApiError == [kind |-> "api_error"]

OracleBadJson == [kind |-> "bad_json"]

OracleNoText == [kind |-> "no_text"]

ErrorTagged(msg) == PyDict([error |-> PyStr(msg)])

\* extract_from_chunk: APIError and JSONDecodeError become an error-tagged
\* mapping; json.loads(None) raises TypeError, which the except clause does
\* not name.
extract_from_chunk(chunk) ==
    CASE chunk.oracle.kind = "json" -> Return(chunk.oracle.value)
      [] chunk.oracle.kind = "api_error" -> Return(ErrorTagged("APIError"))
      [] chunk.oracle.kind = "bad_json" -> Return(ErrorTagged("JSONDecodeError"))
      [] chunk.oracle.kind = "no_text" -> Raise("TypeError")


(***************************************************************************)
(* The schema of functions/models.py.  A type is str, bool, int with       *)
(* bounds, float with bounds, a Literal, Optional[T], list[T] or a model;  *)
(* a field has a name, the key it is read from (its alias, when it has     *)
(* one), a type, and is required unless it has a default (always None).    *)
(***************************************************************************)
TStr == [k |-> "str"]

TBool == [k |-> "bool"]

TInt(lo, hi) == [k |-> "int", ge |-> lo, le |-> hi]

TFloat(lo, hi) == [k |-> "float", ge |-> lo, le |-> hi]

TLit(S) == [k |-> "literal", values |-> S]

TOpt(T) == [k |-> "optional", of |-> T]

TList(T) == [k |-> "list", of |-> T]

TModel(m) == [k |-> "model", name |-> m]

Req(n, T) == [name |-> n, key |-> n, type |-> T, required |-> TRUE]

Dflt(n, T) == [name |-> n, key |-> n, type |-> T, required |-> FALSE]

Jurisdiction == {"UKIPO", "EUIPO"}

MarkType == {"WORD", "FIGURATIVE", "WORD_AND_DEVICE", "THREE_DIMENSIONAL"}

ProofOfUseOutcome == {"use_proven", "use_not_proven", "not_applicable"}

SimilarityDegree ==
    {"identical", "high_degree", "medium_degree", "low_degree", "dissimilar"}

ConceptualSimilarityDegree == SimilarityDegree \cup {"neutral"}

DistinctiveCharacter ==
    {"very_high_degree", "high_degree", "medium_degree", "low_degree"}

AverageConsumerAttention == {"high", "medium", "low"}

ConfusionType == {"direct", "indirect", "both"}

OppositionOutcome == {"successful", "partially_successful", "unsuccessful"}

OtherGroundsEnum == {"5(3)", "5(4)(a)"}

GoodsServicesFields ==
    << [name |-> "class_num", key |-> "class", type |-> TInt(1, 45),
        required |-> TRUE],
       Req("terms", TList(TStr)) >>

ApplicantMarkFields ==
    << Req("mark", TStr),
       Req("mark_type", TLit(MarkType)),
       Req("goods_services", TList(TModel("GoodsServices"))) >>

OpponentMarkFields ==
    << Req("mark", TStr),
       Req("mark_type", TOpt(TLit(MarkType))),
       Req("registration_number", TOpt(TStr)),
       Req("filing_date", TOpt(TStr)),
       Req("registration_date", TOpt(TStr)),
       Req("priority_date", TOpt(TStr)),
       Req("goods_services", TOpt(TList(TModel("GoodsServices")))) >>

GoodsServicesComparisonFields ==
    << Req("applicant_term", TStr),
       Req("opponent_term", TStr),
       Req("similarity", TLit(SimilarityDegree)) >>

MarkComparisonFields ==
    << Req("visual_similarity", TLit(SimilarityDegree)),
       Req("aural_similarity", TLit(SimilarityDegree)),
       Req("conceptual_similarity", TLit(ConceptualSimilarityDegree)),
       Dflt("dominant_component", TOpt(TStr)) >>

PrecedentFields ==
    << Req("case_name", TStr),
       Req("case_reference", TStr),
       Dflt("summary", TOpt(TStr)),
       Dflt("relevance_score", TOpt(TFloat(0, 1))) >>

DecisionRationaleFields ==
    << Req("key_factors", TList(TStr)),
       Dflt("precedents_cited", TOpt(TList(TModel("Precedent")))) >>

CaseFields ==
    << Req("case_reference", TOpt(TStr)),
       Req("decision_date", TOpt(TStr)),
       Req("decision_maker", TOpt(TStr)),
       Dflt("jurisdiction", TOpt(TLit(Jurisdiction))),
       Req("application_number", TStr),
       Req("applicant_name", TStr),
       Req("opponent_name", TStr),
       Req("applicant_marks", TList(TModel("ApplicantMark"))),
       Req("opponent_marks", TList(TModel("OpponentMark"))),
       Req("grounds_for_opposition", TList(TStr)),
       Req("proof_of_use_requested", TBool),
       Dflt("proof_of_use_outcome", TOpt(TLit(ProofOfUseOutcome))),
       Req("goods_services_comparison", TList(TModel("GoodsServicesComparison"))),
       Req("mark_comparison", TModel("MarkComparison")),
       Req("distinctive_character", TLit(DistinctiveCharacter)),
       Req("average_consumer_attention", TLit(AverageConsumerAttention)),
       Req("likelihood_of_confusion", TBool),
       Dflt("confusion_type", TLit(ConfusionType)),
       Dflt("opposition_outcome", TOpt(TLit(OppositionOutcome))),
       Dflt("other_grounds", TOpt(TList(TLit(OtherGroundsEnum)))),
       Dflt("decision_rationale", TOpt(TModel("DecisionRationale"))),
       Dflt("global_assessment_notes", TOpt(TStr)) >>

ModelFields(m) ==
    CASE m = "Case" -> CaseFields
      [] m = "GoodsServices" -> GoodsServicesFields
      [] m = "ApplicantMark" -> ApplicantMarkFields
      [] m = "OpponentMark" -> OpponentMarkFields
      [] m = "GoodsServicesComparison" -> GoodsServicesComparisonFields
      [] m = "MarkComparison" -> MarkComparisonFields
      [] m = "Precedent" -> PrecedentFields
      [] m = "DecisionRationale" -> DecisionRationaleFields

FieldNames(fields) == {fields[i].name : i \in 1..Len(fields)}

FieldOf(fields, n) == CHOOSE f \in {fields[i] : i \in 1..Len(fields)} : f.name = n

\* Case.model_fields.keys(), in declaration order.
all_fields == [i \in 1..Len(CaseFields) |-> CaseFields[i].name]

Invalid == [ok |-> FALSE]

Valid(v) == [ok |-> TRUE, value |-> v]

(***************************************************************************)
(* Validation of a value against a type, as pydantic does it: the validated*)
(* value, or a failure.  A str field takes only a str; a bool field takes a*)
(* bool or the integers 0 and 1; a Literal takes exactly its values;       *)
(* Optional takes None; a list validates every item; a model takes a       *)
(* mapping, reads each field from its key, fails on a missing required     *)
(* field, leaves a missing field with a default at None without validating *)
(* the default, and ignores the keys it does not know.                     *)
(***************************************************************************)
RECURSIVE Validate(_, _)
Validate(v, T) ==
    CASE T.k = "str" -> IF v.t = "str" THEN Valid(v) ELSE Invalid
      [] T.k = "bool" ->
            IF v.t = "bool" THEN Valid(v)
            ELSE IF v.t = "int" /\ v.n \in {0, 1} THEN Valid(PyBool(v.n = 1))
            ELSE Invalid
      [] T.k \in {"int", "float"} ->
            IF v.t = "int" /\ T.ge <= v.n /\ v.n <= T.le THEN Valid(v)
            ELSE Invalid
      [] T.k = "literal" ->
            IF IsPlainStr(v) /\ v.s \in T.values THEN Valid(v) ELSE Invalid
      [] T.k = "optional" ->
            IF v.t = "none" THEN Valid(v) ELSE Validate(v, T.of)
      [] T.k = "list" ->
            IF v.t # "list" THEN Invalid
            ELSE LET each == [i \in 1..Len(v.items) |-> Validate(v.items[i], T.of)]
                 IN  IF \A i \in 1..Len(v.items) : each[i].ok
                     THEN Valid(PyList([i \in 1..Len(v.items) |-> each[i].value]))
                     ELSE Invalid
      [] T.k = "model" ->
            IF v.t # "dict" THEN Invalid
            ELSE LET fields == ModelFields(T.name)
                     given(f) == f.key \in DOMAIN v.kv
                     each == [n \in FieldNames(fields) |->
                                LET f == FieldOf(fields, n)
                                IN  IF given(f) THEN Validate(v.kv[f.key], f.type)
                                    ELSE IF f.required THEN Invalid
                                    ELSE Valid(PyNone)]
                 IN  IF \A n \in FieldNames(fields) : each[n].ok
                     THEN Valid(PyDict([n \in FieldNames(fields) |-> each[n].value]))
                     ELSE Invalid

\* Case(**data) / Case.model_validate(data)
ValidateCase(data) == Validate(data, TModel("Case"))

\* Case.model_construct().model_dump(): the fields that have a default, at
\* their default; the required fields are not set and are not dumped.
CaseSkeleton ==
    [n \in {CaseFields[i].name : i \in {j \in 1..Len(CaseFields) : ~CaseFields[j].required}}
        |-> PyNone]


(***************************************************************************)
(* Inputs of the deep-merge path: what the oracle may return for a chunk.  *)
(***************************************************************************)
GsA == PyDict([applicant_term |-> PyStr("beer"), opponent_term |-> PyStr("ale"),
               similarity |-> PyStr("high_degree")])

GsB == PyDict([applicant_term |-> PyStr("beer"), opponent_term |-> PyStr("wine"),
               similarity |-> PyStr("low_degree")])

ChunkRich ==
    PyDict([applicant_name |-> PyStr("Acme"),
            grounds_for_opposition |-> PyList(<<PyStr("5(2)(b)")>>),
            mark_comparison |-> PyDict([visual_similarity |-> PyStr("high_degree")])])

ChunkEmpties ==
    PyDict([applicant_name |-> PyStr(""),
            grounds_for_opposition |-> PyList(<<>>),
            mark_comparison |-> PyDict(EmptyKv),
            likelihood_of_confusion |-> PyBool(FALSE),
            jurisdiction |-> PyNone])

ChunkOther ==
    PyDict([applicant_name |-> PyStr("Bolt"),
            grounds_for_opposition |->
                PyList(<<PyStr("5(3)"), PyStr("5(2)(b)"), PyStr("5(3)")>>),
            mark_comparison |-> PyDict([visual_similarity |-> PyStr(""),
                                        aural_similarity |-> PyStr("low_degree")])])

ChunkGoods ==
    PyDict([applicant_name |-> PyNone,
            likelihood_of_confusion |-> PyBool(TRUE),
            goods_services_comparison |-> PyList(<<GsA, GsA, GsB>>),
            decision_rationale |->
                PyDict([key_factors |-> PyList(<<PyStr("identical goods")>>)])])

ChunkGoodsB ==
    PyDict([goods_services_comparison |-> PyList(<<GsB, GsA>>),
            mark_comparison |-> PyDict([visual_similarity |-> PyStr("low_degree")]),
            applicant_name |-> PyInt(0),
            decision_rationale |->
                PyDict([key_factors |-> PyList(<<PyStr("weak mark"),
                                                 PyStr("identical goods"),
                                                 PyStr("weak mark")>>)])])

\* a list-valued field given as a scalar, a mapping-valued field as a list
ChunkMixed ==
    PyDict([grounds_for_opposition |-> PyStr("5(2)(b)"),
            mark_comparison |-> PyList(<<>>),
            goods_services_comparison |-> PyDict(EmptyKv)])

ChunkError == ErrorTagged("APIError")

MergeMappings ==
    {ChunkRich, ChunkEmpties, ChunkOther, ChunkGoods, ChunkGoodsB, ChunkMixed}

\* Plain texts that contain the word "error".
MentionsError(a) == a \in {"an error occurred"}

MergeData ==
    MergeMappings
    \cup {ChunkError, PyDict(EmptyKv)}
    \cup {PyStr("no data"), PyStr("an error occurred"), PyInt(5), PyBool(TRUE), PyNone}
    \cup {PyList(<<ChunkRich>>), PyList(<<ChunkError>>), PyList(<<>>)}

\* What the oracle does for a chunk in the fan-out.
FanOracle ==
    {OracleJson(ChunkRich), OracleJson(ChunkOther), OracleJson(PyNone),
     OracleApiError, OracleBadJson, OracleNoText}

CaseDetailsChoices ==
    {[present |-> FALSE],
     [present |-> TRUE,
      value |-> PyDict([case_reference |-> PyStr("O/0001/24"),
                        applicant_name |-> PyStr("Zeta")])]}

Chunk(i, o) == [metadata |-> [chunk_sequence |-> i - 1], oracle |-> o]

(***************************************************************************)
(* extract_data_from_chunks: the fan-out.                                  *)
(***************************************************************************)
ChunkIds == 1..Len(chunks)

Running == {i \in ChunkIds : task[i] = "running"}

\* line 226
max_workers == IF Len(chunks) < CpuCount THEN Len(chunks) ELSE CpuCount

\* lines 220-234: no chunks, return {}; otherwise submit one task per chunk.
Submit ==
    /\ pc = "call"
    /\ IF Len(chunks) = 0
       THEN /\ pc' = "returned"
            /\ ret' = Return(PyDict(EmptyKv))
            /\ UNCHANGED task
       ELSE /\ pc' = "fanout"
            /\ task' = [i \in ChunkIds |-> "queued"]
            /\ UNCHANGED ret
    /\ UNCHANGED <<chunks, case_details, completed, results, combined_data, idx>>
    /\ UNCHANGED <<voteVars, ingestVars>>

\* a free worker of the pool takes the oldest queued task
StartTask(i) ==
    /\ pc = "fanout"
    /\ task[i] = "queued"
    /\ \A j \in ChunkIds : j < i => task[j] # "queued"
    /\ Cardinality(Running) < max_workers
    /\ task' = [task EXCEPT ![i] = "running"]
    /\ UNCHANGED <<chunks, case_details, completed, results, pc, combined_data, idx, ret>>
    /\ UNCHANGED <<voteVars, ingestVars>>

\* extract_from_chunk ends in the worker: the future completes
FinishTask(i) ==
    /\ pc = "fanout"
    /\ task[i] = "running"
    /\ task' = [task EXCEPT ![i] = "done"]
    /\ completed' = Append(completed, i)
    /\ UNCHANGED <<chunks, case_details, results, pc, combined_data, idx, ret>>
    /\ UNCHANGED <<voteVars, ingestVars>>

\* lines 237-247: one turn of the as_completed loop
CollectResult(i, outcome) ==
    IF outcome.kind = "return"
    THEN Append(results, [chunk_metadata |-> chunks[i].metadata,
                          extracted_data |-> outcome.value])
    ELSE results

Collect ==
    /\ pc = "fanout"
    /\ completed # <<>>
    /\ LET i == Head(completed)
       IN  /\ results' = CollectResult(i, extract_from_chunk(chunks[i]))
           /\ task' = [task EXCEPT ![i] = "collected"]
    /\ completed' = Tail(completed)
    /\ UNCHANGED <<chunks, case_details, pc, combined_data, idx, ret>>
    /\ UNCHANGED <<voteVars, ingestVars>>

\* line 250: every future was yielded; combine_extraction_results is called
CallCombine ==
    /\ pc = "fanout"
    /\ \A i \in ChunkIds : task[i] = "collected"
    /\ pc' = "combine"
    /\ UNCHANGED <<chunks, case_details, task, completed, results, combined_data, idx, ret>>
    /\ UNCHANGED <<voteVars, ingestVars>>

(***************************************************************************)
(* combine_extraction_results of case_in.py: the deep-merge reconciler.    *)
(***************************************************************************)
\* lines 292-296
CombineBegin ==
    /\ pc = "combine"
    /\ combined_data' =
          IF case_details.present
          THEN deep_merge(case_details.value.kv, CaseSkeleton)
          ELSE CaseSkeleton
    /\ idx' = 1
    /\ pc' = "combine_loop"
    /\ UNCHANGED <<chunks, case_details, task, completed, results, ret>>
    /\ UNCHANGED <<voteVars, ingestVars>>

\* line 303, `"error" in data`: a key of a mapping, an item of a list, a
\* substring of a str; TypeError for None, a bool or a number.
ErrorInRaises(data) == data.t \in {"none", "bool", "int"}

ErrorIn(data) ==
    CASE data.t = "dict" -> "error" \in DOMAIN data.kv
      [] data.t = "list" -> InList(PyStr("error"), data.items)
      [] data.t = "str" -> IF IsPlainStr(data) THEN MentionsError(data.s) ELSE FALSE
      [] OTHER -> FALSE

\* line 303: the candidate is skipped
SkipEarly(data) == ErrorIn(data) \/ ~Truthy(data)

\* lines 307-308
Unwrap(data) == IF IsList(data) /\ Truthy(data) THEN data.items[1] ELSE data

\* lines 299-315: what one turn of the loop leaves in combined_data
MergeOne(data, acc) ==
    IF SkipEarly(data) THEN acc
    ELSE IF ~IsDict(Unwrap(data)) THEN acc
    ELSE deep_merge(Unwrap(data).kv, acc)

MergeNext ==
    /\ pc = "combine_loop"
    /\ idx <= Len(results)
    /\ LET data == results[idx].extracted_data
       IN  IF ErrorInRaises(data)
           THEN /\ pc' = "raised"
                /\ ret' = Raise("TypeError")
                /\ UNCHANGED <<combined_data, idx>>
           ELSE /\ combined_data' = MergeOne(data, combined_data)
                /\ idx' = idx + 1
                /\ UNCHANGED <<pc, ret>>
    /\ UNCHANGED <<chunks, case_details, task, completed, results>>
    /\ UNCHANGED <<voteVars, ingestVars>>

\* lines 292-317 as a function of the arguments
RECURSIVE CombineFold(_, _)
CombineFold(ds, acc) ==
    IF ds = <<>> THEN Return(PyDict(acc))
    ELSE IF ErrorInRaises(Head(ds).extracted_data) THEN Raise("TypeError")
    ELSE CombineFold(Tail(ds), MergeOne(Head(ds).extracted_data, acc))

CombineOutcome(rs, details) ==
    CombineFold(rs, IF details.present
                    THEN deep_merge(details.value.kv, CaseSkeleton)
                    ELSE CaseSkeleton)

\* line 317 (and line 252: extract_data_from_chunks returns it as it is)
CombineReturn ==
    /\ pc = "combine_loop"
    /\ idx > Len(results)
    /\ pc' = "returned"
    /\ ret' = Return(PyDict(combined_data))
    /\ UNCHANGED <<chunks, case_details, task, completed, results, combined_data, idx>>
    /\ UNCHANGED <<voteVars, ingestVars>>

ChunkerIdle ==
    /\ pdf = <<>>
    /\ page_num = 0
    /\ full_text = <<>>
    /\ current_position = 0
    /\ section_markers = <<>>
    /\ section_chunks = <<>>
    /\ marker_i = 0
    /\ cpc = "idle"
    /\ cret = NoReturn

SessIdle ==
    /\ fn = "none"
    /\ spc = "idle"
    /\ attempt_number = 0
    /\ uploaded_file = 0
    /\ handles = {}
    /\ live = {}
    /\ upload_calls = 0
    /\ delete_calls = <<>>
    /\ oracle_calls = 0
    /\ pending = NoReturn
    /\ doc_structure = <<>>
    /\ attempt_errors = <<>>
    /\ sret = NoReturn

PipeIdle ==
    /\ stage = "idle"
    /\ temp_pdf = "none"
    /\ text_chunks = <<>>
    /\ primary = NoReturn
    /\ pret = NoReturn

\* the defaults of create_simple_chunks (line 551)
DefaultChunkSize == 500

DefaultOverlap == 50

SimpleIdle ==
    /\ chunk_size = DefaultChunkSize
    /\ overlap = DefaultOverlap

\* an empty record store
StoreIdle ==
    /\ docs = <<>>
    /\ chunk_docs = <<>>
    /\ uuid_count = 0
    /\ store_calls = 0
    /\ last_call = [op |-> "none"]

\* no thread is in get_gemini_client
ClientIdle ==
    /\ gemini_client = 0
    /\ constructed = 0
    /\ tpc = <<>>
    /\ made = <<>>
    /\ got = <<>>

\* no batch job
BatchIdle ==
    /\ batch_job = [state |-> "none"]
    /\ bpc = "idle"
    /\ polls = 0
    /\ extraction_results = <<>>
    /\ bret = NoReturn

\* no run is setting up the vector search
VectorIdle ==
    /\ indexes = <<>>
    /\ endpoints = <<>>
    /\ deploy_calls = <<>>
    /\ rpc = <<>>
    /\ listed = <<>>
    /\ vector_index = <<>>
    /\ index_endpoint = <<>>

AuxIdle == SimpleIdle /\ StoreIdle /\ ClientIdle /\ BatchIdle /\ VectorIdle

IngestIdle == ChunkerIdle /\ SessIdle /\ PipeIdle /\ AuxIdle

VoteIdle ==
    /\ extraction_attempts = <<>>
    /\ vpc = "idle"
    /\ final_data = EmptyKv
    /\ vret = NoReturn

\* a call of extract_data_from_chunks(structure_data, prompts, pdf_path)
Init ==
    /\ chunks \in {[i \in 1..Len(os) |-> Chunk(i, os[i])] : os \in SeqsUpTo(FanOracle, MaxChunks)}
    /\ case_details \in CaseDetailsChoices
    /\ task = <<>>
    /\ completed = <<>>
    /\ results = <<>>
    /\ pc = "call"
    /\ combined_data = EmptyKv
    /\ idx = 0
    /\ ret = NoReturn
    /\ VoteIdle
    /\ IngestIdle

Next ==
    \/ Submit
    \/ \E i \in ChunkIds : StartTask(i)
    \/ \E i \in ChunkIds : FinishTask(i)
    \/ Collect
    \/ CallCombine
    \/ CombineBegin
    \/ MergeNext
    \/ CombineReturn

Spec == Init /\ [][Next]_vars

\* a call of combine_extraction_results(results, structure_data)
InitMerge ==
    /\ chunks = <<>>
    /\ case_details \in CaseDetailsChoices
    /\ task = <<>>
    /\ completed = <<>>
    /\ results \in {[i \in 1..Len(ds) |-> [chunk_metadata |-> [chunk_sequence |-> i - 1],
                                             extracted_data |-> ds[i]]] :
                        ds \in SeqsUpTo(MergeData, MaxResults)}
    /\ pc = "combine"
    /\ combined_data = EmptyKv
    /\ idx = 0
    /\ ret = NoReturn
    /\ VoteIdle
    /\ IngestIdle

NextMerge ==
    \/ CombineBegin
    \/ MergeNext
    \/ CombineReturn

SpecMerge == InitMerge /\ [][NextMerge]_vars


(***************************************************************************)
(* combine_extraction_results of extract_predictive_data.py: the per-field *)
(* majority vote.                                                          *)
(***************************************************************************)
\* line 143
IsValidAttempt(a) == IsDict(a) /\ "error" \notin DOMAIN a.kv

valid_attempts(attempts) == SelectSeq(attempts, IsValidAttempt)

\* lines 157-167: the key a value is counted under.  A mapping is counted
\* under its JSON text, a list under the tuple of its items, with the items
\* that are mappings replaced by their JSON text.
HashableItem(i) == IF IsDict(i) THEN JsonText(i) ELSE i

Hashable(value) ==
    CASE IsDict(value) -> JsonText(value)
      [] IsList(value) ->
            PyTuple([i \in 1..Len(value.items) |-> HashableItem(value.items[i])])
      [] OTHER -> value

\* A tuple that holds a list cannot be hashed: Counter raises TypeError.
Unhashable(key) ==
    key.t = "tuple" /\ \E i \in 1..Len(key.items) : key.items[i].t = "list"

\* lines 152-167
all_values(field, valid) ==
    LET given == SelectSeq(valid, LAMBDA a : field \in DOMAIN a.kv /\ a.kv[field].t # "none")
    IN  [i \in 1..Len(given) |-> Hashable(given[i].kv[field])]

Count(q, x) == Cardinality({i \in 1..Len(q) : q[i] = x})

FirstIndex(q, x) == CHOOSE i \in 1..Len(q) : q[i] = x /\ \A j \in 1..(i - 1) : q[j] # x

\* the value at position i is the one Counter.most_common(1) gives: no value
\* is more frequent, and none as frequent was first seen earlier
IsMostCommonAt(q, i) ==
    /\ \A j \in 1..Len(q) : Count(q, q[j]) <= Count(q, q[i])
    /\ \A j \in 1..(i - 1) : Count(q, q[j]) < Count(q, q[i])

\* line 171: Counter(all_values).most_common(1)[0][0]
most_common(q) == q[CHOOSE i \in 1..Len(q) : IsMostCommonAt(q, i)]

\* Plain texts that start with '{' or '[' and are not JSON.
StartsWithBracket(a) == a \in {"[sic] 5(2)(b)"}

\* lines 175-179: a str that starts with '{' or '[' is parsed; when it is
\* not JSON it is kept.
DecodeStr(key) == IF IsJsonText(key) THEN key.json ELSE key

\* line 182: an item of the tuple that is a str starting with '{' or '[' is
\* parsed, with nothing catching JSONDecodeError.
DecodeItemRaises(i) == IsPlainStr(i) /\ StartsWithBracket(i.s)

DecodeItem(i) == IF IsJsonText(i) THEN i.json ELSE i

\* lines 169-188 for one field: the value stored in final_data, or the
\* exception that leaves the function.
FieldOutcome(field, valid) ==
    LET q == all_values(field, valid)
    IN  IF q = <<>> THEN Return(PyNone)
        ELSE IF \E i \in 1..Len(q) : Unhashable(q[i]) THEN Raise("TypeError")
        ELSE LET key == most_common(q)
             IN  IF key.t = "str" THEN Return(DecodeStr(key))
                 ELSE IF key.t = "tuple"
                 THEN IF \E i \in 1..Len(key.items) : DecodeItemRaises(key.items[i])
                      THEN Raise("JSONDecodeError")
                      ELSE Return(PyList([i \in 1..Len(key.items) |->
                                             DecodeItem(key.items[i])]))
                 ELSE Return(key)

\* the fields whose turn of the loop raises
RaisingFields(valid) ==
    {i \in 1..Len(all_fields) : FieldOutcome(all_fields[i], valid).kind = "raise"}


\* final_data when the loop over all_fields ends or is left by an exception
FinalData(valid) ==
    LET bad == RaisingFields(valid)
        done == IF bad = {} THEN 1..Len(all_fields) ELSE 1..(Min(bad) - 1)
    IN  [n \in {all_fields[i] : i \in done} |-> FieldOutcome(n, valid).value]

\* lines 139-197: what the call returns or raises
VoteOutcome(attempts) ==
    LET valid == valid_attempts(attempts)
        bad == RaisingFields(valid)
    IN  IF valid = <<>> THEN Raise("ValueError")
        ELSE IF bad # {} THEN Raise(FieldOutcome(all_fields[Min(bad)], valid).exc)
        ELSE LET checked == ValidateCase(PyDict(FinalData(valid)))
             IN  IF checked.ok THEN Return(checked.value) ELSE Raise("ValidationError")

VoteCombine ==
    /\ vpc = "call"
    /\ LET valid == valid_attempts(extraction_attempts)
           out == VoteOutcome(extraction_attempts)
       IN  /\ final_data' = IF valid = <<>> THEN EmptyKv ELSE FinalData(valid)
           /\ vret' = out
           /\ vpc' = IF out.kind = "return" THEN "returned" ELSE "raised"
    /\ UNCHANGED extraction_attempts
    /\ UNCHANGED <<fanVars, ingestVars>>


(***************************************************************************)
(* Inputs of the majority vote: what a pass of the batch may give.         *)
(***************************************************************************)
McA == PyDict([visual_similarity |-> PyStr("high_degree"),
               aural_similarity |-> PyStr("medium_degree"),
               conceptual_similarity |-> PyStr("neutral")])

McB == PyDict([visual_similarity |-> PyStr("low_degree"),
               aural_similarity |-> PyStr("low_degree"),
               conceptual_similarity |-> PyStr("dissimilar"),
               dominant_component |-> PyStr("ACME")])

GoodsClass == PyDict([class |-> PyInt(32), terms |-> PyList(<<PyStr("beer")>>)])

AppMark == PyDict([mark |-> PyStr("ACME"), mark_type |-> PyStr("WORD"),
                   goods_services |-> PyList(<<GoodsClass>>)])

OppMark == PyDict([mark |-> PyStr("ACNE"), mark_type |-> PyNone,
                   registration_number |-> PyStr("UK0001"),
                   filing_date |-> PyNone, registration_date |-> PyNone,
                   priority_date |-> PyNone, goods_services |-> PyNone])

GroundsA == PyList(<<PyStr("5(2)(b)")>>)

GroundsB == PyList(<<PyStr("5(2)(b)"), PyStr("5(3)")>>)

PassBase ==
    [case_reference |-> PyStr("O/0001/24"),
     decision_date |-> PyStr("01/02/2024"),
     decision_maker |-> PyNone,
     application_number |-> PyStr("UK0002"),
     applicant_name |-> PyStr("Acme"),
     opponent_name |-> PyStr("Acne Ltd"),
     applicant_marks |-> PyList(<<AppMark>>),
     opponent_marks |-> PyList(<<OppMark>>),
     grounds_for_opposition |-> GroundsA,
     proof_of_use_requested |-> PyBool(FALSE),
     goods_services_comparison |-> PyList(<<GsA>>),
     mark_comparison |-> McA,
     distinctive_character |-> PyStr("medium_degree"),
     average_consumer_attention |-> PyStr("medium"),
     likelihood_of_confusion |-> PyBool(TRUE),
     confusion_type |-> PyStr("direct")]

With(kv, changes) ==
    [k \in DOMAIN kv \cup DOMAIN changes |->
        IF k \in DOMAIN changes THEN changes[k] ELSE kv[k]]

PassA == PyDict(PassBase)

PassB ==
    PyDict(With(PassBase, [applicant_name |-> PyStr("Bolt"),
                           mark_comparison |-> McB,
                           grounds_for_opposition |-> GroundsB,
                           goods_services_comparison |-> PyList(<<GsB, GsA>>)]))

\* the oracle gave two fields as the JSON text of their value
PassTexts ==
    PyDict(With(PassBase, [mark_comparison |-> JsonText(McB),
                           grounds_for_opposition |-> JsonText(GroundsB)]))

\* a pass that fills few fields, some with null or a wrong type
PassSparse ==
    PyDict([applicant_name |-> PyStr("Bolt"),
            opponent_name |-> PyNone,
            likelihood_of_confusion |-> PyStr("yes"),
            global_assessment_notes |-> PyStr("[sic] 5(2)(b)")])

PassBracket ==
    PyDict(With(PassBase, [grounds_for_opposition |->
                              PyList(<<PyStr("[sic] 5(2)(b)")>>)]))

PassErrorWithData ==
    PyDict(With(PassBase, [error |-> PyStr("quota"),
                           applicant_name |-> PyStr("Evil")]))

\* a pass that leaves out confusion_type, a field that has a default
PassNoConfusion ==
    PyDict([k \in DOMAIN PassBase \ {"confusion_type"} |-> PassBase[k]])

VoteMappings ==
    {PassA, PassB, PassTexts, PassSparse, PassBracket, PassNoConfusion}

VoteAttempts ==
    VoteMappings
    \cup {ErrorTagged("no response"), PassErrorWithData}
    \cup {PyStr("no data"), PyInt(5), PyBool(TRUE), PyNone}
    \cup {PyList(<<PassA>>), PyList(<<PassB>>)}

\* a call of combine_extraction_results(extraction_attempts)
InitVote ==
    /\ extraction_attempts \in SeqsUpTo(VoteAttempts, MaxAttempts)
    /\ vpc = "call"
    /\ final_data = EmptyKv
    /\ vret = NoReturn
    /\ chunks = <<>>
    /\ case_details = [present |-> FALSE]
    /\ task = <<>>
    /\ completed = <<>>
    /\ results = <<>>
    /\ pc = "idle"
    /\ combined_data = EmptyKv
    /\ idx = 0
    /\ ret = NoReturn
    /\ IngestIdle

NextVote == VoteCombine

SpecVote == InitVote /\ [][NextVote]_vars


(***************************************************************************)
(* Text.  A str of the document is a sequence of characters over a small   *)
(* alphabet: "D" stands for a keyword of COMMON_HEADINGS (re.search finds  *)
(* it anywhere in a line), "x" and "y" for other text, " " and NL for      *)
(* whitespace.                                                             *)
(***************************************************************************)
NL == "\n"

Whitespace == {" ", NL}

Max(S) == CHOOSE x \in S : \A y \in S : y <= x

\* str.strip()
Strip(s) ==
    LET inked == {i \in 1..Len(s) : s[i] \notin Whitespace}
    IN  IF inked = {} THEN <<>> ELSE SubSeq(s, Min(inked), Max(inked))

\* str.split(sep) for a one-character separator
RECURSIVE SplitOn(_, _)
SplitOn(s, sep) ==
    LET at == {i \in 1..Len(s) : s[i] = sep}
    IN  IF at = {} THEN <<s>>
        ELSE <<SubSeq(s, 1, Min(at) - 1)>>
                \o SplitOn(SubSeq(s, Min(at) + 1, Len(s)), sep)

\* sep.join(parts)
RECURSIVE Join(_, _)
Join(parts, sep) ==
    IF parts = <<>> THEN <<>>
    ELSE IF Len(parts) = 1 THEN parts[1]
    ELSE parts[1] \o sep \o Join(Tail(parts), sep)

\* str.split(): the maximal runs of non-whitespace characters
RECURSIVE SplitWords(_)
SplitWords(s) ==
    LET inked == {i \in 1..Len(s) : s[i] \notin Whitespace}
    IN  IF inked = {} THEN <<>>
        ELSE LET first == Min(inked)
                 gaps == {i \in first..Len(s) : s[i] \in Whitespace}
                 stop == IF gaps = {} THEN Len(s) + 1 ELSE Min(gaps)
             IN  <<SubSeq(s, first, stop - 1)>>
                    \o SplitWords(SubSeq(s, stop, Len(s)))

\* s[start:end] for 0 <= start
Slice(s, start, end) == SubSeq(s, start + 1, IF end < Len(s) THEN end ELSE Len(s))

\* re.search(heading_pattern, clean_line, re.IGNORECASE) for some pattern
MatchesHeading(clean_line) == \E i \in 1..Len(clean_line) : clean_line[i] = "D"

\* what page.extract_text() gives for a page
PageText(s) == [k |-> "text", s |-> s]

PageNone == [k |-> "none"]

PageError == [k |-> "error"]

(***************************************************************************)
(* create_simple_chunks: windows of chunk_size words, stepping by          *)
(* chunk_size - overlap.                                                   *)
(***************************************************************************)
SimpleChunk(text, seq) ==
    [text |-> text,
     metadata |-> [chunk_sequence |-> seq, chunk_type |-> "simple"]]

\* lines 571-580: the loop body for i = range(0, len(words), step), step > 0
RECURSIVE SimpleWindows(_, _, _, _, _)
SimpleWindows(words, i, size, step, acc) ==
    IF i >= Len(words) THEN acc
    ELSE SimpleWindows(words, i + step, size, step,
            Append(acc, SimpleChunk(Join(Slice(words, i, i + size), <<" ">>),
                                    Len(acc))))

\* lines 565-582.  range(0, n, step) raises ValueError when step is 0 and is
\* empty when step is negative.
create_simple_chunks(text, size, lap) ==
    LET words == SplitWords(text)
        step == size - lap
    IN  IF words = <<>> THEN Return(<<>>)
        ELSE IF step = 0 THEN Raise("ValueError")
        ELSE IF step < 0 THEN Return(<<>>)
        ELSE Return(SimpleWindows(words, 0, size, step, <<>>))

(***************************************************************************)
(* create_heading_aware_chunks.                                            *)
(***************************************************************************)
\* line 495: the position recorded for a heading found on line line_num
MarkerPositionNoBase(position, lines, line_num) ==
    Len(Join(SubSeq(lines, 1, line_num), <<NL>>))

MarkerPosition(position, lines, line_num) ==
    position + Len(Join(SubSeq(lines, 1, line_num), <<NL>>))

\* lines 485-501: the markers of one page, in line order
RECURSIVE MarkersFrom(_, _, _, _, _)
MarkersFrom(line_num, lines, position, page, acc) ==
    IF line_num >= Len(lines) THEN acc
    ELSE LET clean_line == Strip(lines[line_num + 1])
             marker == [heading |-> clean_line,
                        position |-> MarkerPosition(position, lines, line_num),
                        page |-> page]
         IN  MarkersFrom(line_num + 1, lines, position, page,
                         IF MatchesHeading(clean_line) THEN Append(acc, marker) ELSE acc)

PageMarkers(lines, position, page) == MarkersFrom(0, lines, position, page, <<>>)

\* line 518: list.sort(key=position), a stable sort
RECURSIVE SortByPosition(_)
SortByPosition(ms) ==
    IF ms = <<>> THEN <<>>
    ELSE LET rest == SortByPosition(SubSeq(ms, 1, Len(ms) - 1))
             last == ms[Len(ms)]
             keep == {j \in 1..Len(rest) : rest[j].position <= last.position}
             at == IF keep = {} THEN 0 ELSE Max(keep)
         IN  SubSeq(rest, 1, at) \o <<last>> \o SubSeq(rest, at + 1, Len(rest))

EndOfDocument(text) ==
    [heading |-> <<"E", "N", "D">>, position |-> Len(text), page |-> -1]

SectionChunk(text, marker, seq) ==
    [text |-> text,
     metadata |-> [section |-> marker.heading, page |-> marker.page,
                   chunk_sequence |-> seq, chunk_type |-> "section"]]

\* lines 479-481: the next page of the PDF
ScanPage ==
    /\ cpc = "scan"
    /\ page_num < Len(pdf)
    /\ LET page == pdf[page_num + 1]
       IN  IF page.k = "error"
           THEN /\ cpc' = "raised"
                /\ cret' = Raise("PdfError")
                /\ UNCHANGED <<page_num, full_text, current_position, section_markers>>
           ELSE IF page.k = "none" \/ page.s = <<>>
           THEN /\ page_num' = page_num + 1
                /\ UNCHANGED <<full_text, current_position, section_markers, cpc, cret>>
           ELSE /\ section_markers' = section_markers
                        \o PageMarkers(SplitOn(page.s, NL), current_position, page_num + 1)
                /\ full_text' = full_text \o page.s \o <<NL>>
                /\ current_position' = current_position + Len(page.s) + 1
                /\ page_num' = page_num + 1
                /\ UNCHANGED <<cpc, cret>>
    /\ UNCHANGED <<pdf, section_chunks, marker_i>>
    /\ UNCHANGED <<auxVars, fanVars, voteVars, sessVars, pipeVars>>

\* lines 512-515: no heading was found
FallbackSimple ==
    /\ cpc = "scan"
    /\ page_num = Len(pdf)
    /\ section_markers = <<>>
    /\ LET out == create_simple_chunks(full_text, DefaultChunkSize, DefaultOverlap)
       IN  /\ cret' = out
           /\ section_chunks' = IF out.kind = "return" THEN out.value ELSE section_chunks
           /\ cpc' = IF out.kind = "return" THEN "returned" ELSE "raised"
    /\ UNCHANGED <<pdf, page_num, full_text, current_position, section_markers, marker_i>>
    /\ UNCHANGED <<auxVars, fanVars, voteVars, sessVars, pipeVars>>

\* lines 517-525: sort the markers, append the end of the document
CloseMarkers ==
    /\ cpc = "scan"
    /\ page_num = Len(pdf)
    /\ section_markers # <<>>
    /\ section_markers' = Append(SortByPosition(section_markers), EndOfDocument(full_text))
    /\ marker_i' = 0
    /\ cpc' = "sections"
    /\ UNCHANGED <<pdf, page_num, full_text, current_position, section_chunks, cret>>
    /\ UNCHANGED <<auxVars, fanVars, voteVars, sessVars, pipeVars>>

\* lines 528-546: one turn of the loop over the markers
NextSection ==
    /\ cpc = "sections"
    /\ marker_i < Len(section_markers) - 1
    /\ LET start_pos == section_markers[marker_i + 1].position
           end_pos == section_markers[marker_i + 2].position
           section_text == Strip(Slice(full_text, start_pos, end_pos))
       IN  section_chunks' =
               IF section_text = <<>> THEN section_chunks
               ELSE Append(section_chunks,
                           SectionChunk(section_text, section_markers[marker_i + 1],
                                        Len(section_chunks)))
    /\ marker_i' = marker_i + 1
    /\ UNCHANGED <<pdf, page_num, full_text, current_position, section_markers, cpc, cret>>
    /\ UNCHANGED <<auxVars, fanVars, voteVars, sessVars, pipeVars>>

\* lines 548-549
ReturnSections ==
    /\ cpc = "sections"
    /\ marker_i = Len(section_markers) - 1
    /\ cret' = Return(section_chunks)
    /\ cpc' = "returned"
    /\ UNCHANGED <<pdf, page_num, full_text, current_position, section_markers,
                   section_chunks, marker_i>>
    /\ UNCHANGED <<auxVars, fanVars, voteVars, sessVars, pipeVars>>


(***************************************************************************)
(* Inputs of the chunker: what extract_text may give for a page.           *)
(***************************************************************************)
MaxPages == 2

PageChoices ==
    { PageNone,
      PageError,
      PageText(<<>>),
      PageText(<<" ", NL, " ">>),
      PageText(<<"x", " ", "y">>),
      PageText(<<"D">>),
      PageText(<<"x", NL, "D", " ", "x", NL, "y">>),
      PageText(<<"D", NL, "x", NL, " ", "D", " ", NL, "y">>),
      PageText(<<"x", NL, NL, "D", " ", "y">>) }

\* a call of create_heading_aware_chunks(pdf_path, case_ref)
InitChunk ==
    /\ pdf \in SeqsUpTo(PageChoices, MaxPages)
    /\ page_num = 0
    /\ full_text = <<>>
    /\ current_position = 0
    /\ section_markers = <<>>
    /\ section_chunks = <<>>
    /\ marker_i = 0
    /\ cpc = "scan"
    /\ cret = NoReturn
    /\ chunks = <<>>
    /\ case_details = [present |-> FALSE]
    /\ task = <<>>
    /\ completed = <<>>
    /\ results = <<>>
    /\ pc = "idle"
    /\ combined_data = EmptyKv
    /\ idx = 0
    /\ ret = NoReturn
    /\ VoteIdle
    /\ AuxIdle
    /\ SessIdle
    /\ PipeIdle

NextChunk ==
    \/ ScanPage
    \/ FallbackSimple
    \/ CloseMarkers
    \/ NextSection
    \/ ReturnSections

SpecChunk == InitChunk /\ [][NextChunk]_vars


(***************************************************************************)
(* A direct call of create_simple_chunks(full_text, case_ref, chunk_size,  *)
(* overlap) on a text of distinct words.                                   *)
(***************************************************************************)
MaxWords == 4

MaxSize == 3

MaxOverlap == 3

WordAt(i) == <<<<"a">>, <<"b">>, <<"c">>, <<"d">>, <<"e">>, <<"f">>>>[i]

\* the words 1..n separated by sep, with whitespace around the text
SimpleText(n, sep) == <<" ">> \o Join([i \in 1..n |-> WordAt(i)], sep) \o <<NL>>

SimpleTexts ==
    {SimpleText(n, sep) : n \in 0..MaxWords, sep \in {<<" ">>, <<NL>>, <<" ", NL>>}}

CallSimple ==
    /\ cpc = "simple"
    /\ LET out == create_simple_chunks(full_text, chunk_size, overlap)
       IN  /\ cret' = out
           /\ cpc' = IF out.kind = "return" THEN "returned" ELSE "raised"
    /\ UNCHANGED <<pdf, page_num, full_text, current_position, section_markers,
                   section_chunks, marker_i>>
    /\ UNCHANGED <<fanVars, voteVars, sessVars, pipeVars, simpleVars, storeVars>>
    /\ UNCHANGED <<clientVars, batchVars, vectorVars>>

InitSimple ==
    /\ full_text \in SimpleTexts
    /\ chunk_size \in 1..MaxSize
    /\ overlap \in 0..MaxOverlap
    /\ cpc = "simple"
    /\ cret = NoReturn
    /\ pdf = <<>>
    /\ page_num = 0
    /\ current_position = 0
    /\ section_markers = <<>>
    /\ section_chunks = <<>>
    /\ marker_i = 0
    /\ chunks = <<>>
    /\ case_details = [present |-> FALSE]
    /\ task = <<>>
    /\ completed = <<>>
    /\ results = <<>>
    /\ pc = "idle"
    /\ combined_data = EmptyKv
    /\ idx = 0
    /\ ret = NoReturn
    /\ VoteIdle
    /\ SessIdle
    /\ PipeIdle
    /\ StoreIdle
    /\ ClientIdle
    /\ BatchIdle
    /\ VectorIdle

NextSimple == CallSimple

SpecSimple == InitSimple /\ [][NextSimple]_vars


(***************************************************************************)
(* The functions that upload the PDF to the oracle, call it, and delete    *)
(* the upload in a finally block:                                          *)
(*   "extract_structured_data_retry"  case_in.py, wrapped by tenacity      *)
(*   "extract_document_structure"     case_in.py                           *)
(*   "chunk_pdf"                      case_in/chunk_pdf.py                 *)
(*   "extract_structured_data"        case_in/extract_predictive_data.py   *)
(***************************************************************************)
\* @retry(stop=stop_after_attempt(3), ...): no retry= argument, so every
\* Exception is retried; no reraise=, so exhaustion raises RetryError.
StopAfterAttempt == 3

Retried == {"extract_structured_data_retry"}

\* one section of the DocumentStructure that get_document_structure returns
DocumentSection(start_page, end_page) ==
    [heading |-> <<"D">>, start_page |-> start_page, end_page |-> end_page]

\* pdf.pages[k] of Python: a negative index counts from the end
PageIndexRaises(pages, k) == k >= Len(pages) \/ k < 0 - Len(pages)

PageIndex(pages, k) == IF k >= 0 THEN pages[k + 1] ELSE pages[Len(pages) + k + 1]

\* line 149: the section is skipped as invalid
InvalidRange(section, n_pages) ==
    \/ section.start_page > n_pages
    \/ section.end_page > n_pages
    \/ section.start_page > section.end_page

PageNumbers(section) ==
    [j \in 1..(section.end_page - section.start_page + 1) |-> section.start_page + j - 1]

\* lines 154-160: the text of the pages of the section
RECURSIVE SectionText(_, _)
SectionText(pages, page_numbers) ==
    IF page_numbers = <<>> THEN <<>>
    ELSE LET page == PageIndex(pages, Head(page_numbers) - 1)
             page_text == IF page.k = "text" THEN page.s ELSE <<>>
         IN  (IF page_text # <<>> THEN page_text \o <<NL, NL>> ELSE <<>>)
                \o SectionText(pages, Tail(page_numbers))

SectionReadRaises(pages, section) ==
    \E j \in 1..Len(PageNumbers(section)) :
        PageIndexRaises(pages, PageNumbers(section)[j] - 1)

VisionChunk(text, section, i) ==
    [text |-> text,
     metadata |-> [section |-> section.heading, pages |-> PageNumbers(section),
                   chunk_sequence |-> i, chunk_type |-> "vision_guided_section"]]

\* lines 143-178: the loop over enumerate(doc_structure.sections)
RECURSIVE ChunkSections(_, _, _, _)
ChunkSections(sections, pages, i, acc) ==
    IF i >= Len(sections) THEN Return(acc)
    ELSE LET section == sections[i + 1]
         IN  IF InvalidRange(section, Len(pages))
             THEN ChunkSections(sections, pages, i + 1, acc)
             ELSE IF SectionReadRaises(pages, section) THEN Raise("IndexError")
             ELSE LET section_text == SectionText(pages, PageNumbers(section))
                  IN  ChunkSections(sections, pages, i + 1,
                          IF Strip(section_text) = <<>> THEN acc
                          ELSE Append(acc, VisionChunk(Strip(section_text), section, i)))

\* Case.model_validate(json.loads(response.text)), lines 359-364 of case_in.py
ValidatedAnswer(answer) ==
    CASE answer.kind = "api_error" -> Raise("APIError")
      [] answer.kind = "bad_json" -> Raise("JSONDecodeError")
      [] answer.kind = "no_text" -> Raise("TypeError")
      [] answer.kind = "json" ->
            IF IsDict(answer.value) /\ ValidateCase(answer.value).ok
            THEN Return(ValidateCase(answer.value).value)
            ELSE Raise("ValidationError")

\* lines 119-145 of case_in.py: the structure call of extract_document_structure
StructureAnswer(answer) ==
    CASE answer.kind = "api_error" -> Return(ErrorTagged("APIError"))
      [] answer.kind = "bad_json" -> Return(ErrorTagged("JSONDecodeError"))
      [] answer.kind = "no_text" -> Raise("TypeError")
      [] answer.kind = "json" ->
            IF IsDict(answer.value) THEN Return(answer.value) ELSE Raise("TypeError")

(***************************************************************************)
(* Inputs of the oracle calls.                                             *)
(***************************************************************************)
MaxSections == 2

\* the pages of the PDF that chunk_pdf opens
PdfPageChoices == {PageText(<<"x">>), PageText(<<"y", NL, " ">>), PageNone}

\* start and end pages the oracle may give for a section
SectionChoices ==
    { DocumentSection(1, 1), DocumentSection(1, 2), DocumentSection(2, 2),
      DocumentSection(0, 1), DocumentSection(0, 0), DocumentSection(2, 1),
      DocumentSection(1, 3), DocumentSection(3, 3) }

\* what generate_content may answer when asked for a Case or a structure
CaseAnswers ==
    { OracleApiError, OracleBadJson, OracleNoText,
      OracleJson(PassA), OracleJson(PassSparse), OracleJson(PyList(<<PassA>>)) }

\* what the batch of passes may give
BatchAnswers ==
    { <<>>, <<PassA>>, <<PassA, PassB, PassA>>, <<PassSparse>>,
      <<ErrorTagged("no response"), PyNone>> }

UploadingFunctions ==
    { "extract_structured_data_retry", "extract_document_structure",
      "chunk_pdf", "extract_structured_data" }

\* the handle files.upload returns
NewHandle == Cardinality(handles) + 1

\* gemini_client.files.upload(file=pdf_path)
Upload ==
    /\ spc = "upload"
    /\ upload_calls' = upload_calls + 1
    /\ \E ok \in BOOLEAN :
          IF ok
          THEN /\ uploaded_file' = NewHandle
               /\ handles' = handles \cup {NewHandle}
               /\ live' = live \cup {NewHandle}
               /\ spc' = "oracle"
               /\ UNCHANGED pending
          ELSE /\ pending' = IF fn = "extract_document_structure"
                             THEN Return(ErrorTagged("APIError"))
                             ELSE Raise("APIError")
               /\ spc' = "finally"
               /\ UNCHANGED <<uploaded_file, handles, live>>
    /\ UNCHANGED <<fn, attempt_number, delete_calls, oracle_calls, doc_structure,
                   attempt_errors, sret>>
    /\ UNCHANGED <<auxVars, fanVars, voteVars, chunkerVars, pipeVars>>

\* case_in.py lines 345-364: generate_content with response_schema=Case,
\* json.loads, Case.model_validate
GenerateCase ==
    /\ spc = "oracle"
    /\ fn = "extract_structured_data_retry"
    /\ oracle_calls' = oracle_calls + 1
    /\ \E answer \in CaseAnswers : pending' = ValidatedAnswer(answer)
    /\ spc' = "finally"
    /\ UNCHANGED <<fn, attempt_number, uploaded_file, handles, live, upload_calls,
                   delete_calls, doc_structure, attempt_errors, sret>>
    /\ UNCHANGED <<auxVars, fanVars, voteVars, chunkerVars, pipeVars>>

\* case_in.py lines 119-138: generate_content for the structure, json.loads
GenerateStructure ==
    /\ spc = "oracle"
    /\ fn = "extract_document_structure"
    /\ oracle_calls' = oracle_calls + 1
    /\ \E answer \in CaseAnswers : pending' = StructureAnswer(answer)
    /\ spc' = "finally"
    /\ UNCHANGED <<fn, attempt_number, uploaded_file, handles, live, upload_calls,
                   delete_calls, doc_structure, attempt_errors, sret>>
    /\ UNCHANGED <<auxVars, fanVars, voteVars, chunkerVars, pipeVars>>

\* chunk_pdf.py line 139: get_document_structure(uploaded_file)
GetDocumentStructure ==
    /\ spc = "oracle"
    /\ fn = "chunk_pdf"
    /\ oracle_calls' = oracle_calls + 1
    /\ \/ \E e \in {"APIError", "ValidationError"} :
            /\ pending' = Raise(e)
            /\ spc' = "finally"
            /\ UNCHANGED doc_structure
       \/ \E sections \in SeqsUpTo(SectionChoices, MaxSections) :
            /\ doc_structure' = sections
            /\ spc' = "sections"
            /\ UNCHANGED pending
    /\ UNCHANGED <<fn, attempt_number, uploaded_file, handles, live, upload_calls,
                   delete_calls, attempt_errors, sret>>
    /\ UNCHANGED <<auxVars, fanVars, voteVars, chunkerVars, pipeVars>>

\* chunk_pdf.py lines 143-178
SliceSections ==
    /\ spc = "sections"
    /\ pending' = ChunkSections(doc_structure, pdf, 0, <<>>)
    /\ spc' = "finally"
    /\ UNCHANGED <<fn, attempt_number, uploaded_file, handles, live, upload_calls,
                   delete_calls, oracle_calls, doc_structure, attempt_errors, sret>>
    /\ UNCHANGED <<auxVars, fanVars, voteVars, chunkerVars, pipeVars>>

\* extract_predictive_data.py lines 231-236: the batch of passes, then the
\* majority vote over them
BatchAndCombine ==
    /\ spc = "oracle"
    /\ fn = "extract_structured_data"
    /\ oracle_calls' = oracle_calls + 1
    /\ \/ pending' = Raise("APIError")
       \/ \E attempts \in BatchAnswers : pending' = VoteOutcome(attempts)
    /\ spc' = "finally"
    /\ UNCHANGED <<fn, attempt_number, uploaded_file, handles, live, upload_calls,
                   delete_calls, doc_structure, attempt_errors, sret>>
    /\ UNCHANGED <<auxVars, fanVars, voteVars, chunkerVars, pipeVars>>

\* the guard of the finally blocks: `if uploaded_file:`
CleanupOnSuccessOnly(file, outcome) == file # 0 /\ outcome.kind = "return"

CleanupNeeded(file, outcome) == file # 0

\* the finally block: files.delete(name=uploaded_file.name), which may raise;
\* an exception raised in a finally block replaces the one in flight
Finally ==
    /\ spc = "finally"
    /\ IF CleanupNeeded(uploaded_file, pending)
       THEN \E ok \in BOOLEAN :
               /\ delete_calls' = Append(delete_calls, [name |-> uploaded_file, ok |-> ok])
               /\ live' = IF ok THEN live \ {uploaded_file} ELSE live
               /\ pending' = IF ok THEN pending ELSE Raise("DeleteError")
       ELSE UNCHANGED <<delete_calls, live, pending>>
    /\ spc' = "exit"
    /\ UNCHANGED <<fn, attempt_number, uploaded_file, handles, upload_calls,
                   oracle_calls, doc_structure, attempt_errors, sret>>
    /\ UNCHANGED <<auxVars, fanVars, voteVars, chunkerVars, pipeVars>>

\* tenacity: the attempt raised and fewer than 3 attempts were made
Reattempt ==
    /\ spc = "exit"
    /\ fn \in Retried
    /\ pending.kind = "raise"
    /\ attempt_number < StopAfterAttempt
    /\ attempt_errors' = Append(attempt_errors, pending.exc)
    /\ attempt_number' = attempt_number + 1
    /\ uploaded_file' = 0
    /\ pending' = NoReturn
    /\ spc' = "upload"
    /\ UNCHANGED <<fn, handles, live, upload_calls, delete_calls, oracle_calls,
                   doc_structure, sret>>
    /\ UNCHANGED <<auxVars, fanVars, voteVars, chunkerVars, pipeVars>>

\* the call ends: it returns, raises, or tenacity raises RetryError
Exit ==
    /\ spc = "exit"
    /\ ~(fn \in Retried /\ pending.kind = "raise" /\ attempt_number < StopAfterAttempt)
    /\ attempt_errors' = IF pending.kind = "raise"
                         THEN Append(attempt_errors, pending.exc)
                         ELSE attempt_errors
    /\ sret' = IF fn \in Retried /\ pending.kind = "raise"
               THEN Raise("RetryError")
               ELSE pending
    /\ spc' = IF pending.kind = "raise" THEN "raised" ELSE "returned"
    /\ UNCHANGED <<fn, attempt_number, uploaded_file, handles, live, upload_calls,
                   delete_calls, oracle_calls, pending, doc_structure>>
    /\ UNCHANGED <<auxVars, fanVars, voteVars, chunkerVars, pipeVars>>

\* a call of one of the uploading functions
InitSession ==
    /\ fn \in UploadingFunctions
    /\ pdf \in IF fn = "chunk_pdf" THEN SeqsUpTo(PdfPageChoices, MaxPages) ELSE {<<>>}
    /\ spc = "upload"
    /\ attempt_number = 1
    /\ uploaded_file = 0
    /\ handles = {}
    /\ live = {}
    /\ upload_calls = 0
    /\ delete_calls = <<>>
    /\ oracle_calls = 0
    /\ pending = NoReturn
    /\ doc_structure = <<>>
    /\ attempt_errors = <<>>
    /\ sret = NoReturn
    /\ page_num = 0
    /\ full_text = <<>>
    /\ current_position = 0
    /\ section_markers = <<>>
    /\ section_chunks = <<>>
    /\ marker_i = 0
    /\ cpc = "idle"
    /\ cret = NoReturn
    /\ chunks = <<>>
    /\ case_details = [present |-> FALSE]
    /\ task = <<>>
    /\ completed = <<>>
    /\ results = <<>>
    /\ pc = "idle"
    /\ combined_data = EmptyKv
    /\ idx = 0
    /\ ret = NoReturn
    /\ VoteIdle
    /\ AuxIdle
    /\ PipeIdle

NextSession ==
    \/ Upload
    \/ GenerateCase
    \/ GenerateStructure
    \/ GetDocumentStructure
    \/ SliceSections
    \/ BatchAndCombine
    \/ Finally
    \/ Reattempt
    \/ Exit

SpecSession == InitSession /\ [][NextSession]_vars

(***************************************************************************)
(* get_gemini_client of case_in.py and utils/clients.py, called by several *)
(* threads of one process.  Between the test of the global, the call of    *)
(* genai.Client(), the store to the global and the load for the return     *)
(* statement the interpreter may run another thread.                       *)
(***************************************************************************)
MaxCallers == 3

Callers == 1..MaxCallers

\* line 54: if not _gemini_client
TestGlobal(t) ==
    /\ tpc[t] = "call"
    /\ tpc' = [tpc EXCEPT ![t] = IF gemini_client = 0 THEN "construct" ELSE "return"]
    /\ UNCHANGED <<gemini_client, constructed, made, got>>
    /\ UNCHANGED <<fanVars, voteVars, chunkerVars, sessVars, pipeVars>>
    /\ UNCHANGED <<simpleVars, storeVars, batchVars, vectorVars>>

\* line 56, right-hand side: genai.Client()
Construct(t) ==
    /\ tpc[t] = "construct"
    /\ constructed' = constructed + 1
    /\ made' = [made EXCEPT ![t] = constructed + 1]
    /\ tpc' = [tpc EXCEPT ![t] = "assign"]
    /\ UNCHANGED <<gemini_client, got>>
    /\ UNCHANGED <<fanVars, voteVars, chunkerVars, sessVars, pipeVars>>
    /\ UNCHANGED <<simpleVars, storeVars, batchVars, vectorVars>>

\* line 56: the store to the global
AssignGlobal(t) ==
    /\ tpc[t] = "assign"
    /\ gemini_client' = made[t]
    /\ tpc' = [tpc EXCEPT ![t] = "return"]
    /\ UNCHANGED <<constructed, made, got>>
    /\ UNCHANGED <<fanVars, voteVars, chunkerVars, sessVars, pipeVars>>
    /\ UNCHANGED <<simpleVars, storeVars, batchVars, vectorVars>>

\* line 57: return _gemini_client
ReturnGlobal(t) ==
    /\ tpc[t] = "return"
    /\ got' = [got EXCEPT ![t] = gemini_client]
    /\ tpc' = [tpc EXCEPT ![t] = "done"]
    /\ UNCHANGED <<gemini_client, constructed, made>>
    /\ UNCHANGED <<fanVars, voteVars, chunkerVars, sessVars, pipeVars>>
    /\ UNCHANGED <<simpleVars, storeVars, batchVars, vectorVars>>

\* the workers of the thread pool call get_gemini_client (line 184); the
\* client may have been constructed by an earlier call of the process
InitClient ==
    /\ constructed \in {0, 1}
    /\ gemini_client = constructed
    /\ tpc = [t \in Callers |-> "call"]
    /\ made = [t \in Callers |-> 0]
    /\ got = [t \in Callers |-> 0]
    /\ SimpleIdle
    /\ StoreIdle
    /\ BatchIdle
    /\ VectorIdle
    /\ chunks = <<>>
    /\ case_details = [present |-> FALSE]
    /\ task = <<>>
    /\ completed = <<>>
    /\ results = <<>>
    /\ pc = "idle"
    /\ combined_data = EmptyKv
    /\ idx = 0
    /\ ret = NoReturn
    /\ VoteIdle
    /\ ChunkerIdle
    /\ SessIdle
    /\ PipeIdle

NextClient ==
    \/ \E t \in Callers : TestGlobal(t)
    \/ \E t \in Callers : Construct(t)
    \/ \E t \in Callers : AssignGlobal(t)
    \/ \E t \in Callers : ReturnGlobal(t)

SpecClient == InitClient /\ [][NextClient]_vars

(***************************************************************************)
(* get_parallel_extraction_attempts of extract_predictive_data.py: the     *)
(* batch job is created, polled until its state is one of four states, and *)
(* its inlined responses are read.                                         *)
(***************************************************************************)
MaxPolls == 2

MaxPasses == 2

\* line 89: the states that end the polling loop
LoopEndStates ==
    {"JOB_STATE_SUCCEEDED", "JOB_STATE_FAILED", "JOB_STATE_CANCELLED",
     "JOB_STATE_EXPIRED"}

JobStates == {"JOB_STATE_PENDING", "JOB_STATE_RUNNING"} \cup LoopEndStates

\* an inlined response: a response whose text is JSON, is not JSON or is
\* None, or no response and an error
InlineJson(v) == [response |-> "json", value |-> v]

InlineBadJson == [response |-> "bad json"]

InlineNoText == [response |-> "no text"]

InlineError == [response |-> "none", error |-> "quota"]

InlineResponses == {InlineJson(PassA), InlineBadJson, InlineNoText, InlineError}

NoDest == [present |-> FALSE]

Dest(inlined) == [present |-> TRUE, inlined_responses |-> inlined]

\* what batches.create and batches.get may give: a job that is not finished
\* has no responses; a finished job has no dest, or some or all responses
Jobs ==
    {[state |-> st, dest |-> NoDest] : st \in JobStates}
    \cup {[state |-> st, dest |-> Dest(rs)] :
            st \in LoopEndStates, rs \in SeqsUpTo(InlineResponses, MaxPasses)}

\* lines 108-123: what one inlined response adds to extraction_results
PassResult(inline_response) ==
    CASE inline_response.response = "json" -> inline_response.value
      [] inline_response.response = "none" -> ErrorTagged(inline_response.error)
      [] OTHER -> ErrorTagged("Failed to parse response")

\* lines 105-125
ReadResponses(job) ==
    IF job.dest.present /\ job.dest.inlined_responses # <<>>
    THEN [i \in 1..Len(job.dest.inlined_responses) |->
            PassResult(job.dest.inlined_responses[i])]
    ELSE <<>>

\* lines 79-85: batches.create
CreateBatch ==
    /\ bpc = "create"
    /\ \/ /\ bret' = Raise("APIError")
          /\ bpc' = "raised"
          /\ UNCHANGED batch_job
       \/ /\ batch_job' \in Jobs
          /\ bpc' = "loop"
          /\ UNCHANGED bret
    /\ UNCHANGED <<polls, extraction_results>>
    /\ UNCHANGED <<fanVars, voteVars, chunkerVars, sessVars, pipeVars>>
    /\ UNCHANGED <<simpleVars, storeVars, clientVars, vectorVars>>

\* lines 89-92: the state is none of the four; sleep, batches.get
PollBatch ==
    /\ bpc = "loop"
    /\ batch_job.state \notin LoopEndStates
    /\ polls < MaxPolls
    /\ polls' = polls + 1
    /\ \/ /\ bret' = Raise("APIError")
          /\ bpc' = "raised"
          /\ UNCHANGED batch_job
       \/ /\ batch_job' \in Jobs
          /\ UNCHANGED <<bret, bpc>>
    /\ UNCHANGED extraction_results
    /\ UNCHANGED <<fanVars, voteVars, chunkerVars, sessVars, pipeVars>>
    /\ UNCHANGED <<simpleVars, storeVars, clientVars, vectorVars>>

\* lines 94-125: after the loop only JOB_STATE_FAILED raises
LeaveLoop ==
    /\ bpc = "loop"
    /\ batch_job.state \in LoopEndStates
    /\ IF batch_job.state = "JOB_STATE_FAILED"
       THEN /\ bret' = Raise("APIError")
            /\ bpc' = "raised"
            /\ UNCHANGED extraction_results
       ELSE /\ extraction_results' = ReadResponses(batch_job)
            /\ bret' = Return(extraction_results')
            /\ bpc' = "returned"
    /\ UNCHANGED <<batch_job, polls>>
    /\ UNCHANGED <<fanVars, voteVars, chunkerVars, sessVars, pipeVars>>
    /\ UNCHANGED <<simpleVars, storeVars, clientVars, vectorVars>>

\* a call of get_parallel_extraction_attempts(uploaded_file, prompts)
InitBatch ==
    /\ batch_job = [state |-> "none"]
    /\ bpc = "create"
    /\ polls = 0
    /\ extraction_results = <<>>
    /\ bret = NoReturn
    /\ SimpleIdle
    /\ StoreIdle
    /\ ClientIdle
    /\ VectorIdle
    /\ chunks = <<>>
    /\ case_details = [present |-> FALSE]
    /\ task = <<>>
    /\ completed = <<>>
    /\ results = <<>>
    /\ pc = "idle"
    /\ combined_data = EmptyKv
    /\ idx = 0
    /\ ret = NoReturn
    /\ VoteIdle
    /\ ChunkerIdle
    /\ SessIdle
    /\ PipeIdle

NextBatch ==
    \/ CreateBatch
    \/ PollBatch
    \/ LeaveLoop

SpecBatch == InitBatch /\ [][NextBatch]_vars

(***************************************************************************)
(* utils/vector_search_helpers.py, step 5 of process_case_from_storage,    *)
(* run by several pipeline runs at once.  Every run lists the resources    *)
(* with the display name and creates one when the listing is empty; the    *)
(* endpoint object a run holds carries the deployed_indexes it had when it *)
(* was listed or created.                                                  *)
(***************************************************************************)
MaxRuns == 2

Runs == 1..MaxRuns

DEPLOYMENT_ID == "trademark_index"

Endpoint(n, deployed) == [id |-> n, deployed_indexes |-> deployed]

\* lines 47-49: MatchingEngineIndex.list(filter=display_name)
ListIndexes(r) ==
    /\ rpc[r] = "list_indexes"
    /\ listed' = [listed EXCEPT ![r] = indexes]
    /\ rpc' = [rpc EXCEPT ![r] = "get_or_create_index"]
    /\ UNCHANGED <<indexes, endpoints, deploy_calls, vector_index, index_endpoint>>
    /\ UNCHANGED <<fanVars, voteVars, chunkerVars, sessVars, pipeVars>>
    /\ UNCHANGED <<simpleVars, storeVars, clientVars, batchVars>>

\* lines 51-71: the first index listed, or create_tree_ah_index
GetOrCreateIndex(r) ==
    /\ rpc[r] = "get_or_create_index"
    /\ IF listed[r] # <<>>
       THEN /\ vector_index' = [vector_index EXCEPT ![r] = listed[r][1]]
            /\ UNCHANGED indexes
       ELSE /\ indexes' = Append(indexes, Len(indexes) + 1)
            /\ vector_index' = [vector_index EXCEPT ![r] = Len(indexes) + 1]
    /\ rpc' = [rpc EXCEPT ![r] = "list_endpoints"]
    /\ UNCHANGED <<endpoints, deploy_calls, listed, index_endpoint>>
    /\ UNCHANGED <<fanVars, voteVars, chunkerVars, sessVars, pipeVars>>
    /\ UNCHANGED <<simpleVars, storeVars, clientVars, batchVars>>

\* lines 92-94: MatchingEngineIndexEndpoint.list(filter=display_name)
ListEndpoints(r) ==
    /\ rpc[r] = "list_endpoints"
    /\ listed' = [listed EXCEPT ![r] = endpoints]
    /\ rpc' = [rpc EXCEPT ![r] = "get_or_create_endpoint"]
    /\ UNCHANGED <<indexes, endpoints, deploy_calls, vector_index, index_endpoint>>
    /\ UNCHANGED <<fanVars, voteVars, chunkerVars, sessVars, pipeVars>>
    /\ UNCHANGED <<simpleVars, storeVars, clientVars, batchVars>>

\* lines 96-109: the first endpoint listed, or MatchingEngineIndexEndpoint.create
GetOrCreateEndpoint(r) ==
    /\ rpc[r] = "get_or_create_endpoint"
    /\ IF listed[r] # <<>>
       THEN /\ index_endpoint' = [index_endpoint EXCEPT ![r] = listed[r][1]]
            /\ UNCHANGED endpoints
       ELSE /\ endpoints' = Append(endpoints, Endpoint(Len(endpoints) + 1, {}))
            /\ index_endpoint' = [index_endpoint EXCEPT ![r] = Endpoint(Len(endpoints) + 1, {})]
    /\ rpc' = [rpc EXCEPT ![r] = "deploy"]
    /\ UNCHANGED <<indexes, deploy_calls, listed, vector_index>>
    /\ UNCHANGED <<fanVars, voteVars, chunkerVars, sessVars, pipeVars>>
    /\ UNCHANGED <<simpleVars, storeVars, clientVars, batchVars>>

\* endpoint.deploy_index at the service: a deployment id already in use on
\* the endpoint is refused
DeployAtService(eps, n, deployment_id) ==
    [i \in 1..Len(eps) |->
        IF eps[i].id = n
        THEN Endpoint(n, eps[i].deployed_indexes \cup {deployment_id})
        ELSE eps[i]]

\* lines 130-139: deploy_index_to_endpoint(index_endpoint, vector_index, id)
DeployIndex(r) ==
    /\ rpc[r] = "deploy"
    /\ IF DEPLOYMENT_ID \in index_endpoint[r].deployed_indexes
       THEN /\ rpc' = [rpc EXCEPT ![r] = "deployed"]
            /\ UNCHANGED <<endpoints, deploy_calls>>
       ELSE /\ deploy_calls' = Append(deploy_calls,
                                      [run |-> r, endpoint |-> index_endpoint[r].id,
                                       index |-> vector_index[r]])
            /\ endpoints' = DeployAtService(endpoints, index_endpoint[r].id, DEPLOYMENT_ID)
            /\ rpc' = [rpc EXCEPT ![r] =
                          IF \E i \in 1..Len(endpoints) :
                                /\ endpoints[i].id = index_endpoint[r].id
                                /\ DEPLOYMENT_ID \in endpoints[i].deployed_indexes
                          THEN "raised" ELSE "deployed"]
    /\ UNCHANGED <<indexes, listed, vector_index, index_endpoint>>
    /\ UNCHANGED <<fanVars, voteVars, chunkerVars, sessVars, pipeVars>>
    /\ UNCHANGED <<simpleVars, storeVars, clientVars, batchVars>>

\* the runs reach step 5; the resources exist already, or do not
InitVector ==
    /\ indexes \in {<<>>, <<1>>}
    /\ endpoints \in {<<>>, <<Endpoint(1, {})>>, <<Endpoint(1, {DEPLOYMENT_ID})>>}
    /\ deploy_calls = <<>>
    /\ rpc = [r \in Runs |-> "list_indexes"]
    /\ listed = [r \in Runs |-> <<>>]
    /\ vector_index = [r \in Runs |-> 0]
    /\ index_endpoint = [r \in Runs |-> Endpoint(0, {})]
    /\ SimpleIdle
    /\ StoreIdle
    /\ ClientIdle
    /\ BatchIdle
    /\ chunks = <<>>
    /\ case_details = [present |-> FALSE]
    /\ task = <<>>
    /\ completed = <<>>
    /\ results = <<>>
    /\ pc = "idle"
    /\ combined_data = EmptyKv
    /\ idx = 0
    /\ ret = NoReturn
    /\ VoteIdle
    /\ ChunkerIdle
    /\ SessIdle
    /\ PipeIdle

NextVector ==
    \/ \E r \in Runs : ListIndexes(r)
    \/ \E r \in Runs : GetOrCreateIndex(r)
    \/ \E r \in Runs : ListEndpoints(r)
    \/ \E r \in Runs : GetOrCreateEndpoint(r)
    \/ \E r \in Runs : DeployIndex(r)

SpecVector == InitVector /\ [][NextVector]_vars

(***************************************************************************)
(* The record store (Firestore) and the storage functions of               *)
(* utils/firestore_helpers.py and case_in.py.  A write batch is applied    *)
(* whole by commit() or not at all; set() replaces a document, set(merge)  *)
(* and update() overwrite the given fields and keep the others; update()   *)
(* of a document that does not exist raises NotFound.                      *)
(***************************************************************************)
SERVER_TIMESTAMP == PyStr("SERVER_TIMESTAMP")

\* model_obj.model_dump(mode='json'): every field under its name (by_alias
\* is not set), nested models as mappings, enum members as their values.
RECURSIVE model_dump(_, _)
model_dump(v, T) ==
    CASE v.t = "none" -> v
      [] T.k = "optional" -> model_dump(v, T.of)
      [] T.k = "list" ->
            PyList([i \in 1..Len(v.items) |-> model_dump(v.items[i], T.of)])
      [] T.k = "model" ->
            LET fields == ModelFields(T.name)
            IN  PyDict([n \in FieldNames(fields) |->
                           model_dump(v.kv[n], FieldOf(fields, n).type)])
      [] OTHER -> v

\* case_ref.replace('/', '-') on the references of the model
ReplaceSlash(ref) ==
    CASE ref = "O/0001/24" -> "O-0001-24"
      [] ref = "O/0002/24" -> "O-0002-24"
      [] OTHER -> ref

Timestamps == [createdAt |-> SERVER_TIMESTAMP, updatedAt |-> SERVER_TIMESTAMP]

\* what set(), set(merge=True) and update() leave in a document
SetDocument(store, key, data) == With(store, key :> data)

MergeDocument(store, key, data) ==
    IF key \in DOMAIN store THEN With(store, key :> With(store[key], data))
    ELSE With(store, key :> data)

\* firestore_helpers.py lines 29-58: the writes the batch holds.  The id of
\* a chunk document is the chunk_id of the chunk.
HelperChunkWrites(doc_id, cs) ==
    [k \in {<<doc_id, cs[i].metadata.chunk_id>> : i \in 1..Len(cs)} |->
        LET i == CHOOSE j \in 1..Len(cs) : cs[j].metadata.chunk_id = k[2] /\
                     \A h \in (j + 1)..Len(cs) : cs[h].metadata.chunk_id # k[2]
        IN  [text |-> cs[i].text, metadata |-> cs[i].metadata,
             createdAt |-> SERVER_TIMESTAMP]]

\* case_in.py lines 637-647: zip(chunks, embeddings) stops at the shorter
\* list; the id of a chunk document is chunk_{i:04d}.
ZipChunkWrites(doc_id, cs, embeddings) ==
    IF cs = <<>> \/ embeddings = <<>> THEN <<>>
    ELSE [k \in {<<doc_id, [chunk |-> i - 1]>> : i \in 1..Min({Len(cs), Len(embeddings)})} |->
            With(cs[k[2].chunk + 1],
                 [embedding |-> embeddings[k[2].chunk + 1],
                  createdAt |-> SERVER_TIMESTAMP])]

CaseData(case) == With(model_dump(case, TModel("Case")).kv, Timestamps)

\* lines 109-111 of case_in/case_in.py: a fresh uuid4 for every chunk
WithChunkIds(cs, drawn) ==
    [i \in 1..Len(cs) |->
        [cs[i] EXCEPT !.metadata = With(cs[i].metadata, [chunk_id |-> drawn + i])]]

(***************************************************************************)
(* Inputs of the storage functions.                                        *)
(***************************************************************************)
MaxStores == 2

MaxChunkDocs == 2

\* a candidate with another reference and no goods and services
PassOther ==
    PyDict(With(PassBase, [case_reference |-> PyStr("O/0002/24"),
                           applicant_marks |-> PyList(<<>>)]))

PassNoRef == PyDict(With(PassBase, [case_reference |-> PyNone]))

CaseObjects ==
    {ValidateCase(m).value : m \in {PassA, PassNoConfusion, PassOther, PassNoRef}}

StoredChunk(i) ==
    [text |-> <<"x">>, metadata |-> [chunk_sequence |-> i - 1, chunk_type |-> "simple"]]

ChunkList(n) == [i \in 1..n |-> StoredChunk(i)]

EmbeddingList(n) == [i \in 1..n |-> <<i>>]

Patches ==
    {[likelihood_of_confusion |-> PyStr("yes")],
     [opposition_outcome |-> PyStr("successful")],
     [reviewed |-> PyBool(TRUE)]}

CaseRefs == {"O/0001/24", "O-0001-24", "O-0002-24"}

ModelObjects ==
    CaseObjects \cup {Validate(McB, TModel("MarkComparison")).value}

ModelTypeOf(obj) ==
    IF "case_reference" \in DOMAIN obj.kv THEN TModel("Case") ELSE TModel("MarkComparison")

(***************************************************************************)
(* The storage calls.                                                      *)
(***************************************************************************)
\* utils/firestore_helpers.py store_data_in_firestore(case, chunks): line 30
\* raises for a Case without reference, before anything is written
store_data_in_firestore(case, cs, committed) ==
    LET case_ref == case.kv["case_reference"]
        call == [op |-> "store_data_in_firestore", case |-> case, chunks |-> Len(cs)]
    IN  IF case_ref.t = "none"
        THEN /\ last_call' = With(call, [outcome |-> Raise("AttributeError")])
             /\ UNCHANGED <<docs, chunk_docs>>
        ELSE LET doc_id == ReplaceSlash(case_ref.s)
             IN  IF committed
                 THEN /\ docs' = SetDocument(docs, <<"cases", doc_id>>, CaseData(case))
                      /\ chunk_docs' = With(chunk_docs, HelperChunkWrites(doc_id, cs))
                      /\ last_call' = With(call, [outcome |-> Return("None"),
                                                  doc_id |-> doc_id])
                 ELSE /\ last_call' = With(call, [outcome |-> Raise("GoogleAPIError")])
                      /\ UNCHANGED <<docs, chunk_docs>>

\* a call of it with chunks that carry the chunk ids drawn by the orchestrator
StoreData ==
    /\ store_calls < MaxStores
    /\ \E case \in CaseObjects, n \in 0..MaxChunkDocs, committed \in BOOLEAN :
          /\ store_data_in_firestore(case, WithChunkIds(ChunkList(n), uuid_count), committed)
          /\ uuid_count' = uuid_count + n
    /\ store_calls' = store_calls + 1
    /\ UNCHANGED <<fanVars, voteVars, chunkerVars, sessVars, pipeVars, simpleVars>>
    /\ UNCHANGED <<clientVars, batchVars, vectorVars>>

\* case_in.py store_data_in_firestore(case, chunks, embeddings)
StoreWithEmbeddings ==
    /\ store_calls < MaxStores
    /\ \E case \in CaseObjects, n \in 0..MaxChunkDocs, e \in 0..MaxChunkDocs,
          committed \in BOOLEAN :
          LET case_ref == case.kv["case_reference"]
              call == [op |-> "store_data_in_firestore_embeddings", case |-> case,
                       chunks |-> n, embeddings |-> e]
          IN  /\ case_ref.t = "str"
              /\ IF committed
                 THEN /\ docs' = SetDocument(docs, <<"cases", case_ref.s>>, CaseData(case))
                      /\ chunk_docs' = With(chunk_docs,
                            ZipChunkWrites(case_ref.s, ChunkList(n), EmbeddingList(e)))
                      /\ last_call' = With(call, [outcome |-> Return("None"),
                                                  doc_id |-> case_ref.s])
                 ELSE /\ last_call' = With(call, [outcome |-> Raise("GoogleAPIError")])
                      /\ UNCHANGED <<docs, chunk_docs>>
    /\ store_calls' = store_calls + 1
    /\ UNCHANGED uuid_count
    /\ UNCHANGED <<fanVars, voteVars, chunkerVars, sessVars, pipeVars, simpleVars>>
    /\ UNCHANGED <<clientVars, batchVars, vectorVars>>

\* update_case_data(case_ref, data)
UpdateCaseData ==
    /\ store_calls < MaxStores
    /\ \E case_ref \in CaseRefs, data \in Patches :
          LET key == <<"cases", case_ref>>
              call == [op |-> "update_case_data", doc_id |-> case_ref, data |-> data]
          IN  IF key \in DOMAIN docs
              THEN /\ docs' = MergeDocument(docs, key,
                                  With(data, [updatedAt |-> SERVER_TIMESTAMP]))
                   /\ last_call' = With(call, [outcome |-> Return("None")])
              ELSE /\ last_call' = With(call, [outcome |-> Raise("NotFound")])
                   /\ UNCHANGED docs
    /\ store_calls' = store_calls + 1
    /\ UNCHANGED <<chunk_docs, uuid_count>>
    /\ UNCHANGED <<fanVars, voteVars, chunkerVars, sessVars, pipeVars, simpleVars>>
    /\ UNCHANGED <<clientVars, batchVars, vectorVars>>

\* store_model_object(collection, doc_id, model_obj, merge)
StoreModelObject ==
    /\ store_calls < MaxStores
    /\ \E collection \in {"cases", "comparisons"}, doc_id \in {"O-0001-24", "O-0002-24"},
          model_obj \in ModelObjects, merge \in BOOLEAN :
          LET key == <<collection, doc_id>>
              data == With(model_dump(model_obj, ModelTypeOf(model_obj)).kv, Timestamps)
          IN  /\ docs' = IF merge THEN MergeDocument(docs, key, data)
                         ELSE SetDocument(docs, key, data)
              /\ last_call' = [op |-> "store_model_object", collection |-> collection,
                               doc_id |-> doc_id, model_obj |-> model_obj,
                               merge |-> merge, outcome |-> Return("None")]
    /\ store_calls' = store_calls + 1
    /\ UNCHANGED <<chunk_docs, uuid_count>>
    /\ UNCHANGED <<fanVars, voteVars, chunkerVars, sessVars, pipeVars, simpleVars>>
    /\ UNCHANGED <<clientVars, batchVars, vectorVars>>

\* a sequence of storage calls on an empty record store
InitStore ==
    /\ StoreIdle
    /\ SimpleIdle
    /\ ClientIdle
    /\ BatchIdle
    /\ VectorIdle
    /\ chunks = <<>>
    /\ case_details = [present |-> FALSE]
    /\ task = <<>>
    /\ completed = <<>>
    /\ results = <<>>
    /\ pc = "idle"
    /\ combined_data = EmptyKv
    /\ idx = 0
    /\ ret = NoReturn
    /\ VoteIdle
    /\ ChunkerIdle
    /\ SessIdle
    /\ PipeIdle

NextStore ==
    \/ StoreData
    \/ StoreWithEmbeddings
    \/ UpdateCaseData
    \/ StoreModelObject

SpecStore == InitStore /\ [][NextStore]_vars

(***************************************************************************)
(* process_case_from_storage of case_in/case_in.py: download, chunk_pdf,   *)
(* generate_embeddings, extract_structured_data, vector search and         *)
(* Firestore, and the finally block that removes the temporary file.       *)
(***************************************************************************)
\* a stage calls one of the uploading functions
CallFunction(f) ==
    /\ fn' = f
    /\ spc' = "upload"
    /\ attempt_number' = 1
    /\ uploaded_file' = 0
    /\ pending' = NoReturn
    /\ attempt_errors' = <<>>
    /\ sret' = NoReturn
    /\ UNCHANGED <<handles, live, upload_calls, delete_calls, oracle_calls, doc_structure>>

\* line 72: blob.download_to_filename(temp_pdf.name); line 77 calls chunk_pdf
Download ==
    /\ stage = "download"
    /\ \E ok \in BOOLEAN :
          IF ok
          THEN /\ stage' = "chunk"
               /\ CallFunction("chunk_pdf")
               /\ UNCHANGED primary
          ELSE /\ stage' = "cleanup"
               /\ primary' = Raise("DownloadError")
               /\ UNCHANGED sessVars
    /\ UNCHANGED <<temp_pdf, text_chunks, pret>>
    /\ UNCHANGED <<auxVars, fanVars, voteVars, chunkerVars>>

\* lines 77-82: chunk_pdf returned or raised; no chunks aborts the ingestion
AfterChunking ==
    /\ stage = "chunk"
    /\ spc \in {"returned", "raised"}
    /\ IF spc = "raised"
       THEN /\ primary' = sret
            /\ stage' = "cleanup"
            /\ UNCHANGED text_chunks
       ELSE /\ text_chunks' = sret.value
            /\ IF sret.value = <<>>
               THEN primary' = Return("None") /\ stage' = "cleanup"
               ELSE stage' = "embed" /\ UNCHANGED primary
    /\ UNCHANGED <<temp_pdf, pret>>
    /\ UNCHANGED <<auxVars, fanVars, voteVars, chunkerVars, sessVars>>

\* line 86: generate_embeddings(text_chunks); line 91 calls
\* extract_structured_data(temp_pdf.name)
Embed ==
    /\ stage = "embed"
    /\ \E ok \in BOOLEAN :
          IF ok
          THEN /\ stage' = "extract"
               /\ CallFunction("extract_structured_data")
               /\ UNCHANGED primary
          ELSE /\ stage' = "cleanup"
               /\ primary' = Raise("EmbeddingError")
               /\ UNCHANGED sessVars
    /\ UNCHANGED <<temp_pdf, text_chunks, pret>>
    /\ UNCHANGED <<auxVars, fanVars, voteVars, chunkerVars>>

\* lines 91-92: extract_structured_data returned or raised
AfterExtraction ==
    /\ stage = "extract"
    /\ spc \in {"returned", "raised"}
    /\ IF spc = "raised"
       THEN primary' = sret /\ stage' = "cleanup"
       ELSE stage' = "store" /\ UNCHANGED primary
    /\ UNCHANGED <<temp_pdf, text_chunks, pret>>
    /\ UNCHANGED <<auxVars, fanVars, voteVars, chunkerVars, sessVars>>

\* lines 94-120: vector search index, endpoint and deployment; chunk ids,
\* upsert; store_data_in_firestore(case_obj, text_chunks)
Store ==
    /\ stage = "store"
    /\ \E ok \in BOOLEAN, committed \in BOOLEAN :
          IF ok
          THEN /\ text_chunks' = WithChunkIds(text_chunks, uuid_count)
               /\ uuid_count' = uuid_count + Len(text_chunks)
               /\ store_data_in_firestore(sret.value, text_chunks', committed)
               /\ store_calls' = store_calls + 1
               /\ primary' = last_call'.outcome
          ELSE /\ primary' = Raise("StoreError")
               /\ UNCHANGED <<text_chunks, storeVars>>
    /\ stage' = "cleanup"
    /\ UNCHANGED <<temp_pdf, pret>>
    /\ UNCHANGED <<simpleVars, fanVars, voteVars, chunkerVars, sessVars>>
    /\ UNCHANGED <<clientVars, batchVars, vectorVars>>

\* lines 125-129: the finally block; os.remove may raise, and its exception
\* replaces the outcome of the stages
RemoveTempFile ==
    /\ stage = "cleanup"
    /\ \E ok \in BOOLEAN :
          /\ temp_pdf' = IF ok THEN "removed" ELSE temp_pdf
          /\ pret' = IF ok THEN primary ELSE Raise("OSError")
    /\ stage' = "done"
    /\ UNCHANGED <<text_chunks, primary>>
    /\ UNCHANGED <<auxVars, fanVars, voteVars, chunkerVars, sessVars>>

\* a run of process_case_from_storage(bucket_name, file_name)
InitPipeline ==
    /\ stage = "download"
    /\ temp_pdf = "exists"
    /\ text_chunks = <<>>
    /\ primary = NoReturn
    /\ pret = NoReturn
    /\ pdf \in SeqsUpTo(PdfPageChoices, MaxPages)
    /\ SessIdle
    /\ page_num = 0
    /\ full_text = <<>>
    /\ current_position = 0
    /\ section_markers = <<>>
    /\ section_chunks = <<>>
    /\ marker_i = 0
    /\ cpc = "idle"
    /\ cret = NoReturn
    /\ chunks = <<>>
    /\ case_details = [present |-> FALSE]
    /\ task = <<>>
    /\ completed = <<>>
    /\ results = <<>>
    /\ pc = "idle"
    /\ combined_data = EmptyKv
    /\ idx = 0
    /\ ret = NoReturn
    /\ VoteIdle
    /\ AuxIdle

NextPipeline ==
    \/ Download
    \/ Upload
    \/ GetDocumentStructure
    \/ SliceSections
    \/ AfterChunking
    \/ Embed
    \/ BatchAndCombine
    \/ Finally
    \/ Exit
    \/ AfterExtraction
    \/ Store
    \/ RemoveTempFile

SpecPipeline == InitPipeline /\ [][NextPipeline]_vars

(***************************************************************************)
(* Properties.                                                             *)
(***************************************************************************)
\* a turn of the deep-merge loop that ends without an exception
MergeTurn ==
    /\ pc = "combine_loop"
    /\ idx \in 1..Len(results)
    /\ idx' = idx + 1

CurData == results[idx].extracted_data

IsErrorTagged(d) == IsDict(d) /\ "error" \in DOMAIN d.kv

IsScalar(v) == v.t \in {"str", "bool", "int"}

IsWrapped(d) == IsList(d) /\ Len(d.items) = 1 /\ IsDict(d.items[1])

\* the mapping a candidate stands for: itself, or the mapping it wraps
CandKv(d) ==
    IF IsDict(d) THEN d.kv
    ELSE IF IsWrapped(d) THEN d.items[1].kv
    ELSE EmptyKv

Items(q) == {q[i] : i \in 1..Len(q)}

NoDuplicates(q) == \A i, j \in 1..Len(q) : q[i] = q[j] => i = j

\* C1: every record a reconciler returns satisfies the Case schema: the
\* mapping the deep-merge path returns validates as a Case, and what the
\* majority vote returns is the validated form of its final_data.
C1_ReleasedRecordIsValid ==
    /\ pc = "returned" => ValidateCase(ret.value).ok
    /\ vpc = "returned" =>
          /\ ValidateCase(PyDict(final_data)).ok
          /\ vret = Return(ValidateCase(PyDict(final_data)).value)

\* the non-null values the valid candidates give for a field, in arrival order
Observations(field) ==
    LET given == SelectSeq(valid_attempts(extraction_attempts),
                           LAMBDA a : field \in DOMAIN a.kv /\ a.kv[field].t # "none")
    IN  [i \in 1..Len(given) |-> given[i].kv[field]]

\* C2: in the majority vote the reconciled value of every field is, among
\* the non-null values the valid candidates give for it, one with the highest
\* number of occurrences, and among those the one first seen earliest.
C2_MajorityFirstSeen ==
    vpc \in {"returned", "raised"} =>
        \A f \in DOMAIN final_data :
            LET obs == Observations(f)
            IN  obs # <<>> =>
                    \E i \in 1..Len(obs) :
                        obs[i] = final_data[f] /\ IsMostCommonAt(obs, i)

RECURSIVE KeepsNonEmpty(_, _, _)
KeepsNonEmpty(before, cand, after) ==
    \A k \in DOMAIN before :
        Truthy(before[k]) =>
            /\ k \in DOMAIN after
            /\ Truthy(after[k])
            /\ (k \in DOMAIN cand /\ ~Truthy(cand[k])) => after[k] = before[k]
            /\ (IsDict(before[k]) /\ k \in DOMAIN cand /\ IsDict(cand[k])) =>
                  /\ IsDict(after[k])
                  /\ KeepsNonEmpty(before[k].kv, cand[k].kv, after[k].kv)

EmptyAccepts(before, cand, after) ==
    \A k \in DOMAIN cand :
        (IsScalar(cand[k]) /\ ~Truthy(DictGet(before, k))) =>
            (k \in DOMAIN after /\ after[k] = cand[k])

\* C4 as claimed: the first non-empty value wins for a scalar field: a later
\* candidate's different non-empty value leaves the accumulator's non-empty
\* value unchanged, and an absent or empty accumulator value accepts any
\* non-null candidate value.
C4_FirstNonEmptyWins ==
    [][MergeTurn =>
        LET cand == CandKv(CurData)
        IN  /\ \A k \in DOMAIN cand \cap DOMAIN combined_data :
                  (IsScalar(combined_data[k]) /\ Truthy(combined_data[k])
                      /\ IsScalar(cand[k]) /\ Truthy(cand[k])
                      /\ ~IsErrorTagged(CurData))
                  => combined_data'[k] = combined_data[k]
            /\ ~IsErrorTagged(CurData) => EmptyAccepts(combined_data, cand, combined_data')
    ]_vars

\* C4 as amended: the last non-empty value wins for a scalar field: a later
\* candidate's non-empty value replaces the accumulator's non-empty value,
\* and an absent or empty accumulator value accepts any non-null candidate
\* value.
C4_LastNonEmptyWins ==
    [][(MergeTurn /\ ~IsErrorTagged(CurData)) =>
        LET cand == CandKv(CurData)
        IN  /\ \A k \in DOMAIN cand \cap DOMAIN combined_data :
                  (IsScalar(combined_data[k]) /\ Truthy(combined_data[k])
                      /\ IsScalar(cand[k]) /\ Truthy(cand[k]))
                  => combined_data'[k] = cand[k]
            /\ EmptyAccepts(combined_data, cand, combined_data')
    ]_vars

C4_Witness ==
    /\ pc = "combine_loop"
    /\ idx = 3
    /\ results[1].extracted_data = ChunkRich
    /\ results[2].extracted_data = ChunkOther
    /\ combined_data["applicant_name"] = PyStr("Bolt")

\* the list after is the list before followed by the new items of the
\* candidate's list, each once, in the order of their first occurrence
ListUnion(before, cand, after) ==
    LET n == Len(before)
        added == SubSeq(after, n + 1, Len(after))
    IN  /\ Len(after) >= n
        /\ SubSeq(after, 1, n) = before
        /\ Items(added) = Items(cand) \ Items(before)
        /\ NoDuplicates(added)
        /\ \A i, j \in 1..Len(added) :
              i < j => FirstIndex(cand, added[i]) < FirstIndex(cand, added[j])

RECURSIVE ListsUnited(_, _, _)
ListsUnited(before, cand, after) ==
    \A k \in DOMAIN before \cap DOMAIN cand :
        /\ (IsList(before[k]) /\ IsList(cand[k])) =>
              /\ k \in DOMAIN after
              /\ IsList(after[k])
              /\ ListUnion(before[k].items, cand[k].items, after[k].items)
        /\ (IsDict(before[k]) /\ IsDict(cand[k])) =>
              /\ k \in DOMAIN after
              /\ IsDict(after[k])
              /\ ListsUnited(before[k].kv, cand[k].kv, after[k].kv)

\* C5: for a field that is a list in the accumulator and in the candidate,
\* at any depth, the merged list is the accumulator's list as a prefix,
\* followed by exactly the candidate's items that no item of the list equals,
\* each appended once, in candidate order.
C5_ListUnionNoDuplicates ==
    [][(MergeTurn /\ ~IsErrorTagged(CurData)) =>
        ListsUnited(combined_data, CandKv(CurData), combined_data')]_vars

C5_Witness ==
    /\ pc = "combine_loop"
    /\ idx = 4
    /\ results[1].extracted_data = ChunkGoods
    /\ results[2].extracted_data = ChunkGoodsB
    /\ results[3].extracted_data = ChunkGoodsB
    /\ combined_data["goods_services_comparison"] = PyList(<<GsA, GsA, GsB>>)
    /\ combined_data["decision_rationale"].kv["key_factors"] =
          PyList(<<PyStr("identical goods"), PyStr("weak mark")>>)

\* a candidate that is error-tagged or not a mapping
IsSkippable(d) == IsErrorTagged(d) \/ d.t \in {"str", "int", "bool", "none"}

\* the attempts without those that are error-tagged or not a mapping
WithoutSkippable(attempts) == SelectSeq(attempts, LAMBDA a : ~IsSkippable(a))

\* C6: in both reconcilers a candidate that is error-tagged or not a mapping
\* is skipped: its turn of the deep-merge loop raises nothing and leaves the
\* accumulator unchanged, and the majority vote gives what it gives without
\* such candidates.
C6_SkippedCandidateNoEffect ==
    /\ [][(pc = "combine_loop" /\ idx \in 1..Len(results) /\ IsSkippable(CurData)) =>
            (pc' = "combine_loop" /\ combined_data' = combined_data)]_vars
    /\ [](vpc \in {"returned", "raised"} =>
            vret = VoteOutcome(WithoutSkippable(extraction_attempts)))

\* C7: when the fan-out is over every work item has exactly one collected
\* result, a structured record or an error-tagged one.
C7_OneResultPerItem ==
    pc \in {"combine", "combine_loop", "returned", "raised"} =>
        \A i \in ChunkIds :
            Cardinality({j \in 1..Len(results) :
                            results[j].chunk_metadata = chunks[i].metadata}) = 1

SeqOf(r) == r.chunk_metadata.chunk_sequence

RECURSIVE SortBySequence(_)
SortBySequence(rs) ==
    IF rs = <<>> THEN <<>>
    ELSE LET m == CHOOSE i \in 1..Len(rs) :
                      \A j \in 1..Len(rs) : SeqOf(rs[i]) <= SeqOf(rs[j])
         IN  <<rs[m]>> \o SortBySequence(SubSeq(rs, 1, m - 1) \o SubSeq(rs, m + 1, Len(rs)))

\* C8: what extract_data_from_chunks gives is what merging the results in
\* chunk_sequence order gives, whatever the order of completion.
C8_OrderIndependent ==
    (pc \in {"returned", "raised"} /\ Len(chunks) > 0) =>
        ret = CombineOutcome(SortBySequence(results), case_details)

\* C9: with no usable candidate (none at all, or every one error-tagged or
\* not a mapping) a reconciler returns no record: it raises, and the majority
\* vote raises the error that says so.
C9_NoUsableFailsFast ==
    /\ pc = "returned" =>
          \E i \in 1..Len(results) : ~IsSkippable(results[i].extracted_data)
    /\ (vpc \in {"returned", "raised"}
          /\ \A i \in 1..Len(extraction_attempts) : IsSkippable(extraction_attempts[i]))
       => vret = Raise("ValueError")

UnwrapAll(attempts) ==
    [i \in 1..Len(attempts) |->
        IF IsWrapped(attempts[i]) THEN attempts[i].items[1] ELSE attempts[i]]

\* C10: a candidate that is a single-element list [m] counts as the mapping
\* m: a reconciler gives for a candidate set what it gives for the set with
\* every such list replaced by the mapping it holds.
C10_WrappedCountsAsMapping ==
    /\ vpc \in {"returned", "raised"} =>
          vret = VoteOutcome(UnwrapAll(extraction_attempts))
    /\ pc \in {"returned", "raised"} =>
          ret = CombineOutcome(
                  [i \in 1..Len(results) |->
                      [results[i] EXCEPT !.extracted_data =
                          IF IsWrapped(@) THEN @.items[1] ELSE @]],
                  case_details)

\* the characters of a text that are not whitespace
Ink(s) == SelectSeq(s, LAMBDA c : c \notin Whitespace)

RECURSIVE ConcatTexts(_)
ConcatTexts(cs) ==
    IF cs = <<>> THEN <<>> ELSE cs[1].text \o ConcatTexts(Tail(cs))

\* create_heading_aware_chunks returned from its heading branch
ReturnedSections == cpc = "returned" /\ section_markers # <<>>

\* C11: when at least one heading is detected, the returned sections,
\* concatenated in order, give the whole document text up to whitespace:
\* no non-whitespace text of the document lies outside every section.
C11_SectionsCoverDocument ==
    ReturnedSections => Ink(ConcatTexts(section_chunks)) = Ink(full_text)

\* the lines of the document text and those of them that hold a heading
DocLines == SplitOn(full_text, NL)

HeadingLines == {n \in 1..Len(DocLines) : MatchesHeading(Strip(DocLines[n]))}

\* the text from heading line n up to the next heading line, or to the end
SpanFrom(n) ==
    LET later == {m \in HeadingLines : m > n}
        stop == IF later = {} THEN Len(DocLines) ELSE Min(later) - 1
    IN  Strip(Join(SubSeq(DocLines, n, stop), <<NL>>))

\* the k-th smallest element of a set of numbers
RECURSIVE KthOf(_, _)
KthOf(S, k) == IF k = 1 THEN Min(S) ELSE KthOf(S \ {Min(S)}, k - 1)

\* the text between boundary j and boundary j + 1 of the boundary list
BoundarySpan(j) ==
    Strip(Slice(full_text, section_markers[j].position, section_markers[j + 1].position))

NonEmptySpans == {j \in 1..(Len(section_markers) - 1) : BoundarySpan(j) # <<>>}

C14_NeverReturnsEmpty ==
    cpc = "returned" => (cret.kind = "return" /\ cret.value # <<>>)

\* the k-th chunk of a list carries chunk_sequence k - 1
Contiguous(cs) == \A k \in 1..Len(cs) : cs[k].metadata.chunk_sequence = k - 1

\* C13: in every chunk list a section chunker returns, the k-th chunk
\* (k = 0, 1, ...) has chunk_sequence k: the numbering is assigned after
\* the dropped sections and has no gap.
C13_SequenceContiguous ==
    /\ (cpc = "returned" /\ cret.kind = "return") => Contiguous(cret.value)
    /\ (fn = "chunk_pdf" /\ spc = "returned") => Contiguous(sret.value)

\* the chunks chunk_pdf is about to return
SlicedChunks ==
    IF fn = "chunk_pdf" /\ spc \in {"finally", "exit"} /\ pending.kind = "return"
    THEN pending.value ELSE <<>>

\* the text of pages first..last of the PDF, as chunk_pdf joins it
RECURSIVE PagesText(_, _)
PagesText(first, last) ==
    IF first > last THEN <<>>
    ELSE (IF pdf[first].k = "text" /\ pdf[first].s # <<>>
          THEN pdf[first].s \o <<NL, NL>> ELSE <<>>) \o PagesText(first + 1, last)

\* C15: every chunk chunk_pdf emits comes from a section with
\* 1 <= start_page <= end_page <= number of pages, lists exactly those pages
\* and holds the text of those pages only; a section with a page outside
\* the document or with start > end gives no chunk (and no failure).
C15_OnlyValidPageRanges ==
    /\ \A k \in 1..Len(SlicedChunks) :
          LET pages == SlicedChunks[k].metadata.pages
          IN  /\ pages # <<>>
              /\ 1 <= pages[1]
              /\ pages[Len(pages)] <= Len(pdf)
              /\ \A j \in 1..Len(pages) : pages[j] = pages[1] + j - 1
              /\ \E i \in 1..Len(doc_structure) :
                    /\ doc_structure[i].start_page = pages[1]
                    /\ doc_structure[i].end_page = pages[Len(pages)]
              /\ 1 <= pages[1] /\ pages[Len(pages)] <= Len(pdf) =>
                    SlicedChunks[k].text = Strip(PagesText(pages[1], pages[Len(pages)]))
    /\ (fn = "chunk_pdf" /\ spc = "finally") => pending # Raise("IndexError")

\* an attempt of the retry-wrapped extract_structured_data ended with a
\* schema validation failure
ValidationFailed ==
    /\ fn = "extract_structured_data_retry"
    /\ \E i \in 1..Len(attempt_errors) : attempt_errors[i] = "ValidationError"

\* C16: in the retry-wrapped extract_structured_data a schema validation
\* failure is never retried: after it no further upload or oracle call is
\* made and the caller receives the validation failure.
C16_ValidationNotRetried ==
    /\ [][ValidationFailed =>
            (upload_calls' = upload_calls /\ oracle_calls' = oracle_calls)]_vars
    /\ []((ValidationFailed /\ spc = "raised") => sret = Raise("ValidationError"))

\* the call failed and every attempt ended with a transient provider error
KeptFailingTransient ==
    /\ spc = "raised"
    /\ \A i \in 1..Len(attempt_errors) : attempt_errors[i] = "APIError"

\* C17: every call to the oracle is retried up to 3 times: never more than
\* 3 attempts are made, and when the oracle keeps failing with a transient
\* provider error the failure surfaces only after 3 attempts.
C17_ThreeAttempts ==
    /\ attempt_number <= StopAfterAttempt
    /\ Len(attempt_errors) <= StopAfterAttempt
    /\ KeptFailingTransient => Len(attempt_errors) = StopAfterAttempt

DeleteIssued(h) == \E i \in 1..Len(delete_calls) : delete_calls[i].name = h

DeleteSucceeded(h) ==
    \E i \in 1..Len(delete_calls) : delete_calls[i].name = h /\ delete_calls[i].ok

\* the handle the running attempt holds and has not yet reached its finally
\* block with
InUse(h) == h = uploaded_file /\ spc \in {"oracle", "sections", "finally"}

\* C18: every handle uploaded by extract_structured_data (both variants),
\* chunk_pdf or extract_document_structure has a delete issued for it before
\* the call returns or raises, and before the next retry attempt starts, on
\* every exit path; a handle whose delete succeeded is no longer live.
C18_UploadsAreDeleted ==
    /\ \A h \in handles : InUse(h) \/ DeleteIssued(h)
    /\ \A h \in live : h \in handles /\ ~DeleteSucceeded(h)
    /\ spc \in {"returned", "raised"} =>
          /\ Cardinality(handles) <= upload_calls
          /\ \A h \in handles : DeleteIssued(h)

C18_Witness ==
    /\ fn = "extract_structured_data_retry"
    /\ spc = "raised"
    /\ attempt_errors = <<"ValidationError", "APIError", "JSONDecodeError">>
    /\ handles = {1, 2, 3}
    /\ Len(delete_calls) = 3
    /\ live = {}

\* C19: a failure of a cleanup step (deleting the uploaded handle, removing
\* the temporary PDF) never replaces the primary outcome: the caller gets
\* the result of the stages, or the error of the stage that failed.
C19_CleanupNeverMasks ==
    /\ stage = "done" => pret = primary
    /\ spc \in {"returned", "raised"} => sret # Raise("DeleteError")

\* C20: in a run of process_case_from_storage that reaches extraction the
\* document is uploaded to the oracle exactly once, counted over chunking,
\* extraction and retries, and that handle is released.
C20_OneUploadPerRun ==
    (stage = "done" /\ fn = "extract_structured_data") =>
        /\ upload_calls = 1
        /\ \A h \in handles : DeleteIssued(h)


(***************************************************************************)
(* The majority vote: decoding, and agreement of the candidates.           *)
(***************************************************************************)
\* C27: in the majority vote no decoding step raises, and for every field
\* with at least one non-null observation the reconciled value is equal, in
\* shape and content, to a value that some valid candidate gave for it.
C27_DecodedIsObserved ==
    vpc \in {"returned", "raised"} =>
        /\ vret.kind = "raise" => vret.exc \notin {"JSONDecodeError", "TypeError"}
        /\ \A f \in DOMAIN final_data :
              LET obs == Observations(f)
              IN  obs # <<>> => \E i \in 1..Len(obs) : obs[i] = final_data[f]

\* all valid candidates are the mapping m, and there is at least one
AllAgreeOn(m) ==
    LET valid == valid_attempts(extraction_attempts)
    IN  valid # <<>> /\ \A i \in 1..Len(valid) : valid[i] = m

\* C28: when all valid candidates are one mapping m that validates as a
\* Case, the majority vote returns exactly the Case that validating m gives.
C28_IdentityOnAgreement ==
    vpc \in {"returned", "raised"} =>
        \A m \in VoteMappings :
            AllAgreeOn(m) /\ ValidateCase(m).ok =>
                vret = Return(ValidateCase(m).value)


(***************************************************************************)
(* create_simple_chunks.                                                   *)
(***************************************************************************)
\* the words of a text that holds words 1..n: their numbers
WordCount == Len(SplitWords(full_text))

\* the text of the words first..last, joined by one space
WordsText(first, last) ==
    Join([i \in 1..(last - first + 1) |-> WordAt(first + i - 1)], <<" ">>)

SimpleWellFormed(cs) ==
    LET step == chunk_size - overlap
    IN  /\ cs # <<>>
        /\ \A k \in 1..Len(cs) :
              /\ cs[k].metadata.chunk_type = "simple"
              /\ cs[k].metadata.chunk_sequence = k - 1
              /\ (k - 1) * step < WordCount
              /\ cs[k].text = WordsText((k - 1) * step + 1,
                                         Min({(k - 1) * step + chunk_size, WordCount}))
        /\ \A w \in 1..WordCount :
              \E k \in 1..Len(cs) :
                  (k - 1) * step < w /\ w <= (k - 1) * step + chunk_size

\* C29: for a text with at least one word, chunk_size >= 1 and overlap >= 0,
\* create_simple_chunks returns a non-empty list of 'simple' chunks; chunk k
\* holds the at most chunk_size words from word k*(chunk_size - overlap) on,
\* every word is in some chunk, and chunk_sequence runs 0..len-1.
C29_SimpleChunksCoverWords ==
    cpc \in {"returned", "raised"} /\ WordCount >= 1 =>
        cret.kind = "return" /\ SimpleWellFormed(cret.value)


(***************************************************************************)
(* The record store.                                                       *)
(***************************************************************************)
WithoutTimestamps(data) ==
    [k \in DOMAIN data \ {"createdAt", "updatedAt"} |-> data[k]]

\* v is what model_dump gives for some valid value of type T
RECURSIVE IsDumpOf(_, _)
IsDumpOf(v, T) ==
    CASE T.k = "str" -> IsPlainStr(v)
      [] T.k = "bool" -> v.t = "bool"
      [] T.k \in {"int", "float"} -> v.t = "int" /\ T.ge <= v.n /\ v.n <= T.le
      [] T.k = "literal" -> IsPlainStr(v) /\ v.s \in T.values
      [] T.k = "optional" -> v.t = "none" \/ IsDumpOf(v, T.of)
      [] T.k = "list" ->
            v.t = "list" /\ \A i \in 1..Len(v.items) : IsDumpOf(v.items[i], T.of)
      [] T.k = "model" ->
            /\ v.t = "dict"
            /\ DOMAIN v.kv = FieldNames(ModelFields(T.name))
            /\ \A n \in DOMAIN v.kv :
                  LET f == FieldOf(ModelFields(T.name), n)
                  IN  \/ ~f.required /\ v.kv[n].t = "none"
                      \/ IsDumpOf(v.kv[n], f.type)

\* C24: after any sequence of storage calls every document of the 'cases'
\* collection is, timestamps aside, the serialization of a validated Case.
C24_StoredCaseIsValidated ==
    \A k \in DOMAIN docs :
        k[1] = "cases" => IsDumpOf(PyDict(WithoutTimestamps(docs[k])), TModel("Case"))

StoredByHelper ==
    /\ last_call.op = "store_data_in_firestore"
    /\ last_call.outcome.kind = "return"

\* C25: the mapping store_data_in_firestore has written for a Case c
\* (model_dump of c) validates again, and validating it gives c.
C25_DumpValidatesBack ==
    StoredByHelper =>
        ValidateCase(PyDict(WithoutTimestamps(docs[<<"cases", last_call.doc_id>>])))
            = Valid(last_call.case)

ChunkDocsOf(doc_id) == {k \in DOMAIN chunk_docs : k[1] = doc_id}

\* C26: after a store_data_in_firestore call has committed, the case document
\* exists and its 'chunks' sub-collection holds exactly one document per
\* chunk of the list passed in.
C26_OneDocumentPerChunk ==
    /\ last_call.op \in {"store_data_in_firestore", "store_data_in_firestore_embeddings"}
    /\ last_call.outcome.kind = "return"
    => /\ <<"cases", last_call.doc_id>> \in DOMAIN docs
       /\ Cardinality(ChunkDocsOf(last_call.doc_id)) = last_call.chunks


(***************************************************************************)
(* The end of a run of the ingestion pipeline.                             *)
(***************************************************************************)
CaseStored ==
    /\ last_call.op = "store_data_in_firestore"
    /\ last_call.outcome.kind = "return"
    /\ <<"cases", last_call.doc_id>> \in DOMAIN docs

\* C23: a run of process_case_from_storage that returns normally has stored
\* the Case and its chunks; every other run raises.
C23_ReturnsOnlyAfterStoring ==
    stage = "done" /\ pret.kind = "return" => CaseStored


(***************************************************************************)
(* The oracle client.                                                      *)
(***************************************************************************)
\* C21: under every interleaving of the calling threads genai.Client() is
\* constructed at most once, and all callers are given the same instance.
C21_OneClientPerProcess ==
    /\ constructed <= 1
    /\ \A t \in DOMAIN tpc, u \in DOMAIN tpc :
          tpc[t] = "done" /\ tpc[u] = "done" => got[t] = got[u]


(***************************************************************************)
(* The batched mode.                                                       *)
(***************************************************************************)
\* C22: get_parallel_extraction_attempts reads responses and returns only
\* for a job seen in JOB_STATE_SUCCEEDED, and a job that ended in another
\* way (FAILED, CANCELLED, EXPIRED) makes it raise.
C22_ReturnsOnlyForSucceededJob ==
    /\ bpc = "returned" => batch_job.state = "JOB_STATE_SUCCEEDED"
    /\ extraction_results # <<>> => batch_job.state = "JOB_STATE_SUCCEEDED"
    /\ bpc \in {"returned", "raised"}
         /\ batch_job.state \in LoopEndStates \ {"JOB_STATE_SUCCEEDED"}
       => bret.kind = "raise"


(***************************************************************************)
(* The vector search resources.                                            *)
(***************************************************************************)
RunDone(r) == rpc[r] \in {"deployed", "raised"}

\* C30: under every interleaving of the runs at most one index and one
\* endpoint with the display name exist, at most one deployment is issued
\* for the deployment id, and the runs hold the same index and endpoint.
C30_GetOrCreateIsIdempotent ==
    /\ Len(indexes) <= 1
    /\ Len(endpoints) <= 1
    /\ Len(deploy_calls) <= 1
    /\ \A r \in DOMAIN rpc, q \in DOMAIN rpc :
          RunDone(r) /\ RunDone(q) =>
              /\ vector_index[r] = vector_index[q]
              /\ index_endpoint[r].id = index_endpoint[q].id

==============================================================================
